---- MODULE Spec2Model ----
(***************************************************************************)
(* SoundSwallower: the JavaScript binding's configuration store, the       *)
(* decoder's staged asynchronous bootstrap (initialize and the stage       *)
(* methods it awaits), the guarded decoder operations, and the explicit    *)
(* grammar construction of the JavaScript and Python bindings.             *)
(*                                                                         *)
(* The recognition engine itself (the functions reached through Module._x) *)
(* is an external collaborator: every value it returns is an input, drawn  *)
(* with \E from the values the binding distinguishes.                      *)
(***************************************************************************)
EXTENDS Integers, Sequences, FiniteSets, TLC

(***************************************************************************)
(* Bounds.                                                                 *)
(***************************************************************************)
\* API calls (initialize or a stage method) started on one decoder handle.
MaxRuns == 2
\* Pairs in a feat.params file.
MaxPairs == 2
\* Transition tuples handed to create_fsg.
MaxTrans == 2
\* Largest state index used in a transition tuple.
MaxState == 2
\* Rules in a grammar text.
MaxRules == 2
\* Calls made on a container by a caller that reads what it likes.
MaxCalls == 3
\* Header lines and records in a container.
MaxHdr == 1
MaxRec == 2
\* s3file_retain calls on one container.
MaxRetain == 4
\* Largest offset of a flipped byte among the records of a container.
MaxRegion == 20
\* Largest element count a container announces that is looked at exactly.
MaxCount == 64

(***************************************************************************)
(* Configuration store (class Config).                                     *)
(***************************************************************************)
ARG_INTEGER == 2
ARG_FLOATING == 4
ARG_STRING == 8
ARG_BOOLEAN == 16

\* A key is its first character, when that is '-' or '_', and the rest.
Key(pre, name) == [pre |-> pre, name |-> name]
EmptyKey == Key("", "")

\* The parameters the engine's argument table defines, with their kinds.
PathNames == {"featparams", "mdef", "tmat", "mean", "var", "sendump", "mixw"}
Known ==
    { Key("-", n) : n \in PathNames \cup {"hmm", "tmatfloor", "lowerf", "nfilt", "remove_dc"} }
        \cup { Key("_", "mdef") }

\* Module._cmd_ln_type_r: the kind of a parameter, 0 when it is not defined.
cmd_ln_type_r(key) ==
    IF key \notin Known THEN 0
    ELSE IF key.name \in PathNames \cup {"hmm"} THEN ARG_STRING
    ELSE IF key.name \in {"lowerf", "tmatfloor"} THEN ARG_FLOATING
    ELSE IF key.name = "nfilt" THEN ARG_INTEGER
    ELSE ARG_BOOLEAN

\* Stored values.
Null == [kind |-> "null", s |-> "", n |-> 0]
Str(s) == [kind |-> "str", s |-> s, n |-> 0]
Num(n) == [kind |-> "num", s |-> "", n |-> n]
NaN == [kind |-> "nan", s |-> "", n |-> 0]
Bool(b) == [kind |-> "bool", s |-> "", n |-> IF b THEN 1 ELSE 0]

\* The tokens a feat.params file is made of here, and JavaScript's ToNumber
\* of each: a numeral converts to its number, anything else to NaN.
Tokens == {"1", "25", "yes", "en-us"}
Numerals == {"1", "25"}
NumeralValue(tok) == IF tok = "1" THEN 1 ELSE 25
ToNumber(tok) == IF tok \in Numerals THEN Num(NumeralValue(tok)) ELSE NaN
\* ToInt32, applied to an argument passed to an i32 parameter.
ToInt32(tok) == IF tok \in Numerals THEN Num(NumeralValue(tok)) ELSE Num(0)

\* Config.has: Module._cmd_ln_exists_r on the key as given.
has(key) == key \in Known

\* Config.normalize_key
normalize_key(key) ==
    IF key = EmptyKey THEN EmptyKey
    ELSE IF key.pre = "_" THEN key
    ELSE IF key.pre = "-"
         THEN IF has(Key("_", key.name)) THEN Key("_", key.name) ELSE key
    ELSE IF has(Key("_", key.name)) THEN Key("_", key.name)
    ELSE IF has(Key("-", key.name)) THEN Key("-", key.name)
    ELSE key

\* Config.set writing a parameter the store does not define.
ConfigSetCreating(store, key, val) ==
    LET nkey == normalize_key(key)
    IN  [store |-> [k \in DOMAIN store \cup {nkey} |->
                        IF k = nkey THEN Str(val) ELSE store[k]],
         err |-> "none"]

\* Config.set: the store after the call and the error thrown, if any.
ConfigSet(store, key, val) ==
    LET nkey == normalize_key(key)
        type == cmd_ln_type_r(nkey)
    IN  IF type = 0
        THEN [store |-> store, err |-> "ReferenceError"]
        ELSE IF type = ARG_STRING
        THEN [store |-> [store EXCEPT ![nkey] = Str(val)], err |-> "none"]
        ELSE IF type = ARG_FLOATING
        THEN [store |-> [store EXCEPT ![nkey] = ToNumber(val)], err |-> "none"]
        ELSE [store |-> [store EXCEPT ![nkey] = ToInt32(val)], err |-> "none"]

\* Config.get: the value returned and the error thrown, if any.
ConfigGet(store, key) ==
    LET nkey == normalize_key(key)
        type == cmd_ln_type_r(nkey)
    IN  IF type = 0
        THEN [val |-> Null, err |-> "ReferenceError"]
        ELSE IF type = ARG_BOOLEAN
        THEN [val |-> Bool(store[nkey].n # 0), err |-> "none"]
        ELSE [val |-> store[nkey], err |-> "none"]

\* Config.__setitem__ of the Python binding; val is a Python value, a str,
\* an int or None. A value of the wrong type for its parameter fails in
\* the conversion, before the engine is called.
setitem(store, key, val) ==
    LET ckey == normalize_key(key)
        type == cmd_ln_type_r(ckey)
    IN  IF type = 0
        THEN [store |-> store, err |-> "KeyError"]
        ELSE IF type = ARG_STRING
        THEN IF val.kind = "num"
             THEN [store |-> store, err |-> "AttributeError"]
             ELSE [store |-> [store EXCEPT ![ckey] = val], err |-> "none"]
        ELSE IF type \in {ARG_INTEGER, ARG_FLOATING}
        THEN IF val.kind # "num"
             THEN [store |-> store, err |-> "TypeError"]
             ELSE [store |-> [store EXCEPT ![ckey] = val], err |-> "none"]
        ELSE [store |-> [store EXCEPT ![ckey] = Num(IF val # Num(0) THEN 1 ELSE 0)],
              err |-> "none"]

\* Config.__getitem__ of the Python binding.
getitem(store, key) ==
    LET ckey == normalize_key(key)
        type == cmd_ln_type_r(ckey)
    IN  IF type = 0
        THEN [val |-> Null, err |-> "KeyError"]
        ELSE IF type = ARG_BOOLEAN
        THEN [val |-> Bool(store[ckey].n # 0), err |-> "none"]
        ELSE [val |-> store[ckey], err |-> "none"]

\* The store of a Config built with no dictionary: the engine's defaults,
\* with hmm set to Module.defaultModel.
DefaultStore ==
    [k \in Known |->
        IF k = Key("-", "hmm") THEN Str("en-us")
        ELSE IF k.name \in PathNames THEN Null
        ELSE IF k.name \in {"lowerf", "tmatfloor"} THEN Num(1)
        ELSE IF k.name = "nfilt" THEN Num(1)
        ELSE Num(0)]

\* MergePair without the test of Config.has.
MergePairUntested(store, pair) == ConfigSet(store, pair[1], pair[2])

\* The body of the loop of Decoder.init_featparams for one pair.
MergePair(store, pair) ==
    IF has(pair[1])
    THEN ConfigSet(store, pair[1], pair[2])
    ELSE [store |-> store, err |-> "none"]

\* Decoder.init_featparams over the pairs read_featparams yields, in order;
\* the first error ends the loop.
RECURSIVE MergeAll(_, _)
MergeAll(store, pairs) ==
    IF pairs = <<>> THEN [store |-> store, err |-> "none"]
    ELSE LET r == MergePair(store, Head(pairs))
         IN  IF r.err # "none" THEN r ELSE MergeAll(r.store, Tail(pairs))


\* Config.model_path: "ok" when a path results, else the error thrown.
model_path(st, key) ==
    LET g == ConfigGet(st, key)
    IN  IF g.err # "none" THEN g.err
        ELSE IF g.val # Null THEN "ok"
        ELSE IF ConfigGet(st, Key("", "hmm")).val = Null THEN "Error"
        ELSE "ok"

(***************************************************************************)
(* State.                                                                  *)
(***************************************************************************)
VARIABLES
    ps,           \* Decoder.ps: 1 a live engine handle, 0 after delete()
    initialized,  \* Decoder.initialized
    cmd_ln,       \* Decoder.config.cmd_ln: 1 live, 0 after Config.delete()
    store,        \* the parameter values behind Decoder.config.cmd_ln
    hstage,       \* number of the stage whose result the handle received last
    gmmArgs,      \* the containers of the last Module._load_gmm call
    mixwCause,    \* why load_gmm last opened the raw mixture weights
    files,        \* which of sendump and mixture_weights exist (learnt when load_gmm first runs)
    pc,           \* per call: where the asynchronous call is suspended
    kind,         \* per call: the method invoked
    log,          \* per call: the stages it completed, in order
    err,          \* per call: what it threw
    early,        \* per call: its current stage began before the predecessor was on the handle
    started,      \* calls started so far
    ndone,        \* initialize() calls that completed every stage
    cont,         \* per call: the containers it made, parsed, released, handed to the engine
    last,         \* the last guarded operation and its outcome
    fpq,          \* feat.params pairs still to merge
    prevStore,    \* the store before the last merged pair
    lastPair,     \* the last merged pair
    mergeErr,     \* the error the last merged pair raised
    cfgCall,      \* the last call of the Config interface and its outcome
    trans,        \* the transition list handed to create_fsg
    ends,         \* the start_state and final_state handed to create_fsg
    fsg,          \* per binding: what create_fsg made of it
    jsgfIn,       \* the grammar text and rule name handed to parse_jsgf
    jsgfOut,      \* per binding: what parse_jsgf made of it
    s3src,        \* what the container was serialized from, and how it is read
    s3,           \* per byte order of the serialization: the container (s3file_t)
    s3log,        \* per byte order: the calls made on the container and their results
    proc,         \* per byte order: the process the container is read in
    s3ref,        \* the references held on the container, and the calls that made them
    resolved,     \* a key and what each binding's normalize_key made of it
    iter          \* the stored keys and how far each binding's iteration over them got

decVars == <<ps, initialized, cmd_ln, store>>
engVars == <<hstage, gmmArgs, mixwCause>>
callVars == <<pc, kind, log, err, early, started, ndone, cont>>
cfgVars == <<fpq, prevStore, lastPair, mergeErr, cfgCall>>
fsgVars == <<trans, ends, fsg>>
jsgfVars == <<jsgfIn, jsgfOut>>
s3Vars == <<s3src, s3, s3log, proc, s3ref>>
keyVars == <<resolved, iter>>
\* All of these but one group.
notCfg == <<fsgVars, jsgfVars, s3Vars, keyVars>>
notFsg == <<cfgVars, jsgfVars, s3Vars, keyVars>>
notJsgf == <<cfgVars, fsgVars, s3Vars, keyVars>>
notS3 == <<cfgVars, fsgVars, jsgfVars, keyVars>>
libVars == <<cfgVars, fsgVars, jsgfVars, s3Vars, keyVars>>
vars == <<decVars, engVars, callVars, files, last, libVars>>

(***************************************************************************)
(* The bootstrap sequence.                                                 *)
(***************************************************************************)
Calls == {"A", "B"}

\* The engine-facing stages, in the order Decoder.initialize awaits them.
StageList ==
    <<"config", "fe", "feat", "acmod_pre", "mdef", "tmat", "gmm",
      "acmod_post", "dict", "grammar">>
StageNo(s) == CHOOSE i \in 1..Len(StageList) : StageList[i] = s
\* What a complete initialize() logs: the feat.params overlay, then the stages.
InitializeOrder == <<"featparams">> \o StageList

Methods ==
    {"initialize", "init_config", "init_fe", "init_feat", "init_acmod",
     "load_acmod_files", "load_mdef", "load_tmat", "load_gmm", "init_dict",
     "init_grammar"}

\* The first and the last stage a method runs.
FirstStage(m) ==
    CASE m \in {"initialize", "init_config"} -> 1
      [] m = "init_fe" -> 2
      [] m = "init_feat" -> 3
      [] m = "init_acmod" -> 4
      [] m \in {"load_acmod_files", "load_mdef"} -> 5
      [] m = "load_tmat" -> 6
      [] m = "load_gmm" -> 7
      [] m = "init_dict" -> 9
      [] OTHER -> 10
LastStage(m) ==
    CASE m \in {"initialize", "init_grammar"} -> 10
      [] m = "init_config" -> 1
      [] m = "init_fe" -> 2
      [] m = "init_feat" -> 3
      [] m = "init_acmod" -> 4
      [] m = "load_mdef" -> 5
      [] m = "load_tmat" -> 6
      [] m = "load_gmm" -> 7
      [] m = "load_acmod_files" -> 8
      [] OTHER -> 9

\* AfterStage with the feature-module stage left out of the chain.
AfterStageSkippingFeat(m, k) ==
    IF k = 0 THEN "config_engine"
    ELSE IF k = 2 /\ LastStage(m) > 3 THEN StageList[4]
    ELSE IF k < LastStage(m) THEN StageList[k + 1]
    ELSE IF m = "initialize" THEN "finish"
    ELSE "done"

\* Where a call of method m goes once its stage k returned normally.
AfterStage(m, k) ==
    IF k = 0 THEN "config_engine"     \* the overlay is done: on to the engine
    ELSE IF k < LastStage(m) THEN StageList[k + 1]
    ELSE IF m = "initialize" THEN "finish"
    ELSE "done"

\* Control transfers of a call.
Advance(c, k, name) ==
    /\ pc' = [pc EXCEPT ![c] = AfterStage(kind[c], k)]
    /\ log' = [log EXCEPT ![c] = Append(@, name)]
    /\ err' = err
\* Throw with the error caught and the sequence carried on.
ThrowSwallowed(c, e) ==
    /\ pc' = [pc EXCEPT ![c] =
                IF e = "featparams" THEN "config_engine"
                ELSE IF e \in {"not_constructed", "ReferenceError"} THEN "failed"
                ELSE AfterStage(kind[c], StageNo(e))]
    /\ err' = [err EXCEPT ![c] = e]
    /\ log' = log
Throw(c, e) ==
    /\ pc' = [pc EXCEPT ![c] = "failed"]
    /\ err' = [err EXCEPT ![c] = e]
    /\ log' = log
Goto(c, p) ==
    /\ pc' = [pc EXCEPT ![c] = p]
    /\ log' = log
    /\ err' = err

\* A stage is entered: note whether its predecessor is on the handle.
Enter(c, k) == early' = [early EXCEPT ![c] = (k > 1 /\ hstage # k - 1)]

\* The outcomes of model_path on the decoder's configuration: a released
\* configuration is read through a null pointer, with either outcome.
ModelPathOutcomes(keys) ==
    IF cmd_ln = 0 THEN {"ok", "Error"}
    ELSE IF \A k \in keys : model_path(store, Key("", k)) = "ok" THEN {"ok"}
    ELSE {"Error"}

\* Under initialize and load_acmod_files the paths come from model_path;
\* a stage method called directly is given its paths.
UsesModelPath(c) == kind[c] \in {"initialize", "load_acmod_files"}

Idle == {"idle", "done", "failed"}

\* The containers of a call: those load_to_s3file made for it, those whose
\* parse gave a result, the Module._s3file_free calls in order, and those
\* passed to Module._load_gmm.
NoContainers == [made |-> {}, parsed |-> {}, frees |-> <<>>, given |-> {}]
Made(k, role) == [k EXCEPT !.made = @ \cup {role}]
Parsed(k, role) == [k EXCEPT !.parsed = @ \cup {role}]
Freed(k, role) == [k EXCEPT !.frees = Append(@, role)]
Given(k, roles) == [k EXCEPT !.given = @ \cup roles]

\* The caller invokes a method on the decoder.
StartCall(c, ms) ==
    /\ pc[c] \in Idle
    /\ started < MaxRuns
    /\ \E m \in ms :
        /\ kind' = [kind EXCEPT ![c] = m]
        /\ pc' = [pc EXCEPT ![c] =
                    IF m = "initialize" THEN "initialize" ELSE StageList[FirstStage(m)]]
    /\ log' = [log EXCEPT ![c] = <<>>]
    /\ err' = [err EXCEPT ![c] = "none"]
    /\ early' = [early EXCEPT ![c] = FALSE]
    /\ started' = started + 1
    /\ cont' = [cont EXCEPT ![c] = NoContainers]
    /\ UNCHANGED <<decVars, engVars, files, last, libVars, ndone>>

\* The stores a caller-supplied configuration may hold.
ArgStores == {DefaultStore, [DefaultStore EXCEPT ![Key("-", "hmm")] = Null]}

\* init_config up to its first suspension: init_featparams asks for the
\* feat.params path and read_featparams starts reading it.
ConfigBegin(c, st, live) ==
    \E r \in (IF live = 0 THEN {"ok", "Error"}
              ELSE {model_path(st, Key("", "featparams"))}) :
        IF r = "ok" THEN Goto(c, "config_read") ELSE Throw(c, "featparams")

\* InitializeRefused for a decoder that may be initialized only once.
InitializeRefusedOnce == ps = 0 \/ initialized

\* The test that makes Decoder.initialize throw at once.
InitializeRefused == ps = 0

\* Decoder.initialize up to its first suspension.
InitializeEntry(c) ==
    /\ pc[c] = "initialize"
    /\ IF InitializeRefused
       THEN /\ Throw(c, "not_constructed")
            /\ UNCHANGED <<cmd_ln, store>>
       ELSE \E arg \in {"undefined", "config", "dict", "bad_dict", "own", "released"} :
            CASE arg = "undefined" ->
                    /\ UNCHANGED <<cmd_ln, store>>
                    /\ ConfigBegin(c, store, cmd_ln)
              [] arg \in {"own", "released"} ->
                    \* the Config the decoder holds is deleted and then
                    \* assigned back; a Config deleted elsewhere is assigned
                    /\ cmd_ln' = 0
                    /\ store' = store
                    /\ ConfigBegin(c, store, 0)
              [] arg = "bad_dict" ->
                    \* new Config(dict) throws on an unknown key, after the
                    \* old configuration was deleted
                    /\ cmd_ln' = 0
                    /\ store' = store
                    /\ Throw(c, "ReferenceError")
              [] OTHER ->
                    \E st \in ArgStores :
                        /\ cmd_ln' = 1
                        /\ store' = st
                        /\ ConfigBegin(c, st, 1)
    /\ UNCHANGED <<ps, initialized, engVars, files, last, libVars,
                   kind, early, started, ndone, cont>>

\* init_config invoked directly.
InitConfigEntry(c) ==
    /\ pc[c] = "config"
    /\ ConfigBegin(c, store, cmd_ln)
    /\ UNCHANGED <<decVars, engVars, files, last, libVars, kind, early, started, ndone, cont>>

\* The feat.params files: the pairs read_featparams yields, and whether it
\* then throws for a dangling key.
FeatFiles ==
    { [pairs |-> <<>>, odd |-> FALSE],
      [pairs |-> <<>>, odd |-> TRUE],
      [pairs |-> << <<Key("-", "nfilt"), "25">> >>, odd |-> FALSE],
      [pairs |-> << <<Key("-", "zz"), "1">> >>, odd |-> FALSE] }

\* init_featparams resumes with the file read: every pair is merged.
ConfigRead(c) ==
    /\ pc[c] = "config_read"
    /\ \/ /\ Throw(c, "featparams")          \* the read or fetch failed
          /\ store' = store
       \/ \E f \in FeatFiles :
            IF cmd_ln = 0
            THEN /\ store' = store
                 /\ \/ Throw(c, "featparams")
                    \/ Advance(c, 0, "featparams")
            ELSE LET r == MergeAll(store, f.pairs)
                 IN  /\ store' = r.store
                     /\ IF r.err # "none" \/ f.odd
                        THEN Throw(c, "featparams")
                        ELSE Advance(c, 0, "featparams")
    /\ UNCHANGED <<ps, initialized, cmd_ln, engVars, files, last, libVars,
                   kind, early, started, ndone, cont>>


\* init_config resumes after init_featparams: the engine takes the
\* configuration (ps_init_config, then ps_init_cleanup).
ConfigEngine(c) ==
    /\ pc[c] = "config_engine"
    /\ \E rv \in {"ok", "fail"} :
        IF rv = "ok"
        THEN /\ hstage' = 1
             /\ Advance(c, 1, "config")
        ELSE /\ hstage' = hstage
             /\ Throw(c, "config")
    /\ UNCHANGED <<decVars, gmmArgs, mixwCause, files, last, libVars,
                   kind, early, started, ndone, cont>>

\* init_fe, init_feat, init_acmod, the acoustic post-init of
\* load_acmod_files, init_dict, init_grammar: one engine call, whose failure
\* value is thrown.
SimpleStages == {2, 3, 4, 8, 9, 10}
SimpleStage(c) ==
    \E k \in SimpleStages :
        /\ pc[c] = StageList[k]
        /\ Enter(c, k)
        /\ \E rv \in {"ok", "fail"} :
            IF rv = "ok"
            THEN /\ hstage' = k
                 /\ Advance(c, k, StageList[k])
            ELSE /\ hstage' = hstage
                 /\ Throw(c, StageList[k])
        /\ UNCHANGED <<decVars, gmmArgs, mixwCause, files, last, libVars,
                       kind, started, ndone, cont>>

\* load_to_s3file: the read fails ("unavailable"), Module._malloc returns 0
\* ("alloc"), or a container results ("ok").
LoadOutcomes(exists) ==
    IF exists THEN {"ok", "alloc"} ELSE {"unavailable"}

\* load_mdef up to its suspension in load_to_s3file.
MdefBegin(c) ==
    /\ pc[c] = "mdef"
    /\ Enter(c, 5)
    /\ \E r \in (IF UsesModelPath(c) THEN ModelPathOutcomes({"mdef"}) ELSE {"ok"}) :
        IF r = "ok" THEN Goto(c, "mdef_read") ELSE Throw(c, "mdef")
    /\ UNCHANGED <<decVars, engVars, files, last, libVars, kind, started, ndone, cont>>

\* load_mdef resumes: parse, release the container, install the result.
MdefRead(c) ==
    /\ pc[c] = "mdef_read"
    /\ \E exists \in BOOLEAN : \E r \in LoadOutcomes(exists) : \E mdef \in {0, 1} :
        /\ IF r = "ok" /\ mdef # 0
           THEN /\ hstage' = 5
                /\ Advance(c, 5, "mdef")
           ELSE /\ hstage' = hstage
                /\ Throw(c, "mdef")
        /\ cont' = [cont EXCEPT ![c] =
              IF r # "ok" THEN @
              ELSE IF mdef # 0 THEN Freed(Parsed(Made(@, "mdef"), "mdef"), "mdef")
              ELSE Freed(Made(@, "mdef"), "mdef")]
    /\ UNCHANGED <<decVars, gmmArgs, mixwCause, files, last, libVars,
                   kind, early, started, ndone>>

\* load_tmat up to its suspension in load_to_s3file.
TmatBegin(c) ==
    /\ pc[c] = "tmat"
    /\ Enter(c, 6)
    /\ \E r \in (IF UsesModelPath(c) THEN ModelPathOutcomes({"tmat"}) ELSE {"ok"}) :
        IF r = "ok" THEN Goto(c, "tmat_read") ELSE Throw(c, "tmat")
    /\ UNCHANGED <<decVars, engVars, files, last, libVars, kind, started, ndone, cont>>

\* load_tmat resumes: read the floor, parse, release, install.
TmatRead(c) ==
    /\ pc[c] = "tmat_read"
    /\ \E exists \in BOOLEAN : \E r \in LoadOutcomes(exists) :
       \E floor \in (IF cmd_ln = 0 THEN {"ok", "ReferenceError"}
                     ELSE {ConfigGet(store, Key("", "tmatfloor")).err}) :
       \E tmat \in {0, 1} :
        /\ IF r = "ok" /\ floor \in {"ok", "none"} /\ tmat # 0
           THEN /\ hstage' = 6
                /\ Advance(c, 6, "tmat")
           ELSE /\ hstage' = hstage
                /\ Throw(c, "tmat")
        /\ cont' = [cont EXCEPT ![c] =
              IF r # "ok" THEN @
              ELSE IF floor \notin {"ok", "none"} THEN Made(@, "tmat")
              ELSE IF tmat # 0 THEN Freed(Parsed(Made(@, "tmat"), "tmat"), "tmat")
              ELSE Freed(Made(@, "tmat"), "tmat")]
    /\ UNCHANGED <<decVars, gmmArgs, mixwCause, files, last, libVars,
                   kind, early, started, ndone>>


\* load_gmm up to its first suspension (reading the means).
GmmBegin(c) ==
    /\ pc[c] = "gmm"
    /\ Enter(c, 7)
    /\ \E r \in (IF UsesModelPath(c)
                 THEN ModelPathOutcomes({"mean", "var", "sendump", "mixw"})
                 ELSE {"ok"}) :
        IF r = "ok" THEN Goto(c, "gmm_means") ELSE Throw(c, "gmm")
    /\ IF files = {"unknown"}
       THEN files' \in SUBSET {"sendump", "mixw"}
       ELSE files' = files
    /\ UNCHANGED <<decVars, engVars, last, libVars, kind, started, ndone, cont>>

\* load_gmm resumes with the means, and starts reading the variances.
GmmMeans(c) ==
    /\ pc[c] = "gmm_means"
    /\ \E exists \in BOOLEAN : \E r \in LoadOutcomes(exists) :
        IF r = "ok"
        THEN /\ Goto(c, "gmm_vars")
             /\ cont' = [cont EXCEPT ![c] = Made(@, "means")]
        ELSE /\ Throw(c, "gmm")
             /\ cont' = cont
    /\ UNCHANGED <<decVars, engVars, files, last, libVars, kind, early, started, ndone>>

\* load_gmm resumes with the variances, and starts reading sendump.
GmmVars(c) ==
    /\ pc[c] = "gmm_vars"
    /\ \E exists \in BOOLEAN : \E r \in LoadOutcomes(exists) :
        IF r = "ok"
        THEN /\ Goto(c, "gmm_sendump")
             /\ cont' = [cont EXCEPT ![c] = Made(@, "variances")]
        ELSE /\ Throw(c, "gmm")
             /\ cont' = cont
    /\ UNCHANGED <<decVars, engVars, files, last, libVars, kind, early, started, ndone>>

\* The try/catch of load_gmm around the sendump load: with r the outcome of
\* load_to_s3file(sendump_path), the containers held and whether the raw
\* mixture weights are opened next.
SendumpChoice(r) ==
    IF r = "ok"
    THEN [sendump |-> 1, mixw |-> 0, openMixw |-> FALSE]
    ELSE [sendump |-> 0, mixw |-> 0, openMixw |-> TRUE]

\* Module._load_gmm(ps, means, variances, mixw, sendump) and the test of
\* its result.
LoadGmmCall(c, mixw, sendump) ==
    /\ gmmArgs' = [called |-> TRUE, mixw |-> mixw, sendump |-> sendump]
    /\ \E rv \in {"ok", "fail"} :
        IF rv = "ok"
        THEN /\ hstage' = 7
             /\ Advance(c, 7, "gmm")
        ELSE /\ hstage' = hstage
             /\ Throw(c, "gmm")

\* load_gmm resumes from the sendump load.
GmmSendump(c) ==
    /\ pc[c] = "gmm_sendump"
    /\ \E r \in LoadOutcomes("sendump" \in files) :
        LET ch == SendumpChoice(r)
        IN  IF ch.openMixw
            THEN /\ mixwCause' = r
                 /\ Goto(c, "gmm_mixw")
                 /\ UNCHANGED <<hstage, gmmArgs, cont>>
            ELSE /\ mixwCause' = mixwCause
                 /\ LoadGmmCall(c, ch.mixw, ch.sendump)
                 /\ cont' = [cont EXCEPT ![c] =
                       Given(Made(@, "sendump"), {"means", "variances", "sendump"})]
    /\ UNCHANGED <<decVars, files, last, libVars, kind, early, started, ndone>>

\* load_gmm resumes from the mixture_weights load, in the catch clause.
GmmMixw(c) ==
    /\ pc[c] = "gmm_mixw"
    /\ \E r \in LoadOutcomes("mixw" \in files) :
        IF r = "ok"
        THEN /\ LoadGmmCall(c, 1, 0)
             /\ cont' = [cont EXCEPT ![c] =
                   Given(Made(@, "mixw"), {"means", "variances", "mixw"})]
        ELSE /\ Throw(c, "gmm")
             /\ UNCHANGED <<hstage, gmmArgs, cont>>
    /\ UNCHANGED <<decVars, mixwCause, files, last, libVars, kind, early, started, ndone>>

\* Decoder.initialize resumes after init_grammar.
Finish(c) ==
    /\ pc[c] = "finish"
    /\ initialized' = TRUE
    /\ ndone' = ndone + 1
    /\ Goto(c, "done")
    /\ UNCHANGED <<ps, cmd_ln, store, engVars, files, last, libVars,
                   kind, early, started, cont>>

\* Decoder.delete
Delete ==
    /\ ps # 0 \/ cmd_ln # 0
    /\ cmd_ln' = 0
    /\ ps' = 0
    /\ UNCHANGED <<initialized, store, engVars, callVars, files, last, libVars>>

(***************************************************************************)
(* Guarded operations.                                                     *)
(***************************************************************************)
GuardedOps ==
    {"start", "stop", "process", "get_hyp", "get_hypseg", "lookup_word",
     "add_word", "create_fsg", "parse_jsgf", "set_fsg", "reinitialize_audio"}

\* assert_initialized testing the handle instead of the flag.
assert_constructed ==
    IF ps = 0 THEN "Decoder not yet initialized" ELSE "none"

\* Decoder.assert_initialized: the error thrown, "none" when it returns.
assert_initialized ==
    IF ~initialized THEN "Decoder not yet initialized" ELSE "none"

\* A guarded operation: assert_initialized, then the engine.
GuardedOp(op) ==
    /\ LET e == assert_initialized
       IN  IF e # "none"
           THEN last' = [op |-> op, err |-> e, engine |-> FALSE]
           ELSE \E rv \in {"none", "failed"} :
                   last' = [op |-> op, err |-> rv, engine |-> TRUE]
    /\ UNCHANGED <<decVars, engVars, callVars, files, libVars>>

Operation == \E op \in GuardedOps : GuardedOp(op)

(***************************************************************************)
(* The decoder after construction, and its behaviours.                     *)
(***************************************************************************)
NoPair == <<EmptyKey, "1">>
Bindings == {"js", "py"}
\* What create_fsg leaves behind: how it ended, the automaton it built
\* (state count, start, final, transitions, word table) and the calls of
\* fsg_model_word_add it made, each with the id returned and the size of
\* the word table after it.
FsgResult(result, g) ==
    [result |-> result, n_state |-> g.n_state, start |-> g.start, final |-> g.final,
     arcs |-> g.arcs, words |-> g.words, calls |-> g.calls, added |-> Len(g.arcs)]
NoAutomaton ==
    [n_state |-> 0, start |-> 0, final |-> 0, arcs |-> <<>>, words |-> <<>>, calls |-> <<>>]
NoFsg == FsgResult("none", NoAutomaton)

\* No call of the Config interface yet.
NoCall == [binding |-> "none", op |-> "none", key |-> EmptyKey, err |-> "none"]

\* The outcome of parse_jsgf before it is called.
NoJsgf == [result |-> "none", rule |-> 0, built |-> FALSE, freed |-> FALSE]

\* Nothing merged yet.
CfgIdle ==
    /\ fpq = <<>>
    /\ prevStore = DefaultStore
    /\ lastPair = NoPair
    /\ mergeErr = "none"
    /\ cfgCall = NoCall
\* No grammar built yet.
FsgIdle ==
    /\ trans = <<>>
    /\ ends = <<0, 0>>
    /\ fsg = [b \in Bindings |-> NoFsg]
\* No grammar text compiled yet: a text that parses, its rules in order,
\* each public or not, and the rule name given ("" for none).
JsgfIdle ==
    /\ jsgfIn = [ok |-> TRUE, rules |-> <<>>, toprule |-> ""]
    /\ jsgfOut = [b \in Bindings |-> NoJsgf]
\* s3file_init: the caller holds the one reference; nothing retained,
\* freed or released yet.
OneReference == [refcnt |-> 1, retains |-> 0, frees |-> 0, released |-> 0]

\* No container opened: the serializations of nothing, unread.
Views == {"native", "foreign"}
S3Idle ==
    /\ s3src = [lines |-> <<>>, recs |-> <<>>, damage |-> "none", at |-> 0, bit |-> 0,
                mode |-> "free"]
    /\ s3 = [v \in Views |-> [buf |-> <<>>, ptr |-> 0, end |-> 0, headers |-> <<>>,
                               swap |-> 0, chksum |-> <<0, 0>>, usable |-> TRUE]]
    /\ s3log = [v \in Views |-> <<>>]
    /\ proc = [v \in Views |-> "running"]
    /\ s3ref = OneReference

\* What normalize_key returns: a str encoded to bytes in Python, a string
\* in JavaScript, undefined when the method ends without a return.
Unresolved == [repr |-> "none", key |-> EmptyKey]
Bytes8(key) == [repr |-> "bytes", key |-> key]
String(key) == [repr |-> "string", key |-> key]
Undefined == [repr |-> "undefined", key |-> EmptyKey]
Resolvers == {"py", "js", "earlier"}

\* No key resolved, no iteration started.
NoIteration ==
    [table |-> <<>>,
     js |-> [state |-> "none", at |-> 1, seen |-> {}, yielded |-> <<>>],
     py |-> [state |-> "none", keys |-> {}, yielded |-> <<>>]]
KeyIdle ==
    /\ resolved = [key |-> EmptyKey, out |-> [b \in Resolvers |-> Unresolved]]
    /\ iter = NoIteration

\* Nothing merged, no grammar built, no grammar text compiled, no
\* container opened yet.
LibIdle ==
    /\ CfgIdle
    /\ FsgIdle
    /\ JsgfIdle
    /\ S3Idle
    /\ KeyIdle

Init ==
    /\ ps = 1
    /\ initialized = FALSE
    /\ cmd_ln = 1
    /\ store \in ArgStores
    /\ hstage = 0
    /\ gmmArgs = [called |-> FALSE, mixw |-> 0, sendump |-> 0]
    /\ mixwCause = "none"
    /\ files = {"unknown"}
    /\ pc = [c \in Calls |-> "idle"]
    /\ kind = [c \in Calls |-> "initialize"]
    /\ log = [c \in Calls |-> <<>>]
    /\ err = [c \in Calls |-> "none"]
    /\ early = [c \in Calls |-> FALSE]
    /\ started = 0
    /\ cont = [c \in Calls |-> NoContainers]
    /\ ndone = 0
    /\ last = [op |-> "none", err |-> "none", engine |-> FALSE]
    /\ LibIdle

\* The steps of one asynchronous call.
Resume(c) ==
    \/ InitializeEntry(c)
    \/ ConfigRead(c)
    \/ ConfigEngine(c)
    \/ SimpleStage(c)
    \/ MdefBegin(c)
    \/ MdefRead(c)
    \/ TmatBegin(c)
    \/ TmatRead(c)
    \/ GmmBegin(c)
    \/ GmmMeans(c)
    \/ GmmVars(c)
    \/ GmmSendump(c)
    \/ GmmMixw(c)
    \/ Finish(c)

\* Overlapping initialize() calls on one handle, and delete().
Initialize == \E c \in Calls : StartCall(c, {"initialize"})
Continue == \E c \in Calls : Resume(c)
Next ==
    \/ Initialize
    \/ Continue
    \/ Delete

Spec == Init /\ [][Next]_vars

\* One call at a time: initialize(), delete() and the guarded operations.
InitializeA == StartCall("A", {"initialize"})
ContinueA == Resume("A")
NextOps ==
    \/ InitializeA
    \/ ContinueA
    \/ Delete
    \/ Operation

SpecOps == Init /\ [][NextOps]_vars

\* One call at a time: initialize() and the stage methods called directly.
Invoke == StartCall("A", Methods)
InitConfigA == InitConfigEntry("A")
NextStages ==
    \/ Invoke
    \/ InitConfigA
    \/ ContinueA

SpecStages == Init /\ [][NextStages]_vars


(***************************************************************************)
(* The feat.params overlay, one pair at a time (init_featparams).          *)
(***************************************************************************)
\* Keys a feat.params file may name: of each kind, one the store writes
\* under another name, one without its dash, one the store does not define.
PairKeys ==
    {Key("-", "nfilt"), Key("-", "lowerf"), Key("-", "remove_dc"),
     Key("-", "mdef"), Key("", "nfilt"), Key("-", "zz")}
Pairs == PairKeys \X Tokens

RECURSIVE SeqsUpTo(_, _)
SeqsUpTo(S, n) ==
    IF n = 0 THEN {<<>>}
    ELSE LET shorter == SeqsUpTo(S, n - 1)
         IN  shorter \cup {Append(q, x) : q \in {r \in shorter : Len(r) = n - 1}, x \in S}

\* Stores a caller can have built before initialize(): the defaults, or
\* values of the caller's own.
CallerStores ==
    { DefaultStore,
      [DefaultStore EXCEPT ![Key("-", "nfilt")] = Num(25),
                           ![Key("_", "mdef")] = Str("en-us"),
                           ![Key("-", "remove_dc")] = Num(1)] }

InitCfg ==
    /\ ps = 1
    /\ initialized = FALSE
    /\ cmd_ln = 1
    /\ store \in CallerStores
    /\ hstage = 0
    /\ gmmArgs = [called |-> FALSE, mixw |-> 0, sendump |-> 0]
    /\ mixwCause = "none"
    /\ files = {"unknown"}
    /\ pc = [c \in Calls |-> "idle"]
    /\ kind = [c \in Calls |-> "initialize"]
    /\ log = [c \in Calls |-> <<>>]
    /\ err = [c \in Calls |-> "none"]
    /\ early = [c \in Calls |-> FALSE]
    /\ started = 0
    /\ cont = [c \in Calls |-> NoContainers]
    /\ ndone = 0
    /\ last = [op |-> "none", err |-> "none", engine |-> FALSE]
    /\ fpq \in SeqsUpTo(Pairs, MaxPairs)
    /\ prevStore = store
    /\ lastPair = NoPair
    /\ mergeErr = "none"
    /\ cfgCall = NoCall
    /\ FsgIdle
    /\ JsgfIdle
    /\ S3Idle
    /\ KeyIdle

\* One iteration of the loop of init_featparams; an error ends the loop.
MergeStep ==
    /\ fpq # <<>>
    /\ LET r == MergePair(store, Head(fpq))
       IN  /\ store' = r.store
           /\ mergeErr' = r.err
           /\ fpq' = IF r.err = "none" THEN Tail(fpq) ELSE <<>>
    /\ prevStore' = store
    /\ lastPair' = Head(fpq)
    /\ UNCHANGED <<ps, initialized, cmd_ln, engVars, callVars, files, last, cfgCall, notCfg>>

NextCfg == MergeStep

SpecCfg == InitCfg /\ [][NextCfg]_vars

(***************************************************************************)
(* The Config interface, called directly.                                  *)
(***************************************************************************)
\* Keys a caller may name: parameters the store defines, written with a
\* dash, an underscore or neither, and names it does not define.
ApiKeys ==
    {Key("-", "nfilt"), Key("", "lowerf"), Key("", "mdef"), Key("_", "mdef"),
     Key("-", "remove_dc"), Key("-", "zz"), Key("_", "zz"), Key("", "zz"),
     Key("_", "hmm"), EmptyKey}
\* Values a Python caller may give.
PyVals == {Str("en-us"), Num(1), Num(0), Null}

\* One call of the interface: what it leaves in the store and what it
\* throws.
ConfigCall(binding, op, key, r) ==
    /\ store' = r.store
    /\ prevStore' = store
    /\ cfgCall' = [binding |-> binding, op |-> op, key |-> key, err |-> r.err]
    /\ UNCHANGED <<ps, initialized, cmd_ln, engVars, callVars, files, last,
                   fpq, lastPair, mergeErr, notCfg>>

\* config.set(key, val)
SetJs ==
    \E key \in ApiKeys, val \in Tokens :
        ConfigCall("js", "set", key, ConfigSet(store, key, val))

\* config.get(key)
GetJs ==
    \E key \in ApiKeys :
        ConfigCall("js", "get", key, [store |-> store, err |-> ConfigGet(store, key).err])

\* config[key] = val
SetPy ==
    \E key \in ApiKeys, val \in PyVals :
        ConfigCall("py", "set", key, setitem(store, key, val))

\* config[key]
GetPy ==
    \E key \in ApiKeys :
        ConfigCall("py", "get", key, [store |-> store, err |-> getitem(store, key).err])

\* A Config just built, with the engine's defaults.
InitApi ==
    /\ InitCfg
    /\ store = DefaultStore
    /\ fpq = <<>>

NextApi ==
    \/ SetJs
    \/ GetJs
    \/ SetPy
    \/ GetPy

SpecApi == InitApi /\ [][NextApi]_vars

(***************************************************************************)
(* Explicit grammar construction (create_fsg).                             *)
(***************************************************************************)
\* A transition tuple: source, destination, probability and word ("" when
\* the tuple has none).
Words == {"", "a", "b"}
Probs == {"1.0", "0.5"}
Transition == [from : 0..MaxState, to : 0..MaxState, prob : Probs, word : Words]
\* Tuples of probability 1 over one word, between any two states.
PlainTransition == {t \in Transition : t.prob = "1.0" /\ t.word # "b"}
\* Tuples of any word and probability, each leading to the next state.
RingTransition == {t \in Transition : t.to = (t.from + 1) % (MaxState + 1)}

Max2(a, b) == IF a >= b THEN a ELSE b

\* JavaScript: n_state = 0; for (t of transitions)
\*   n_state = Math.max(n_state, t.from, t.to); n_state++
RECURSIVE MaxFrom(_, _)
MaxFrom(n, ts) ==
    IF ts = <<>> THEN n
    ELSE MaxFrom(Max2(Max2(n, Head(ts).from), Head(ts).to), Tail(ts))
\* MaxFrom looking at the sources only.
n_state_js_sources(ts) ==
    LET RECURSIVE Src(_, _)
        Src(n, r) == IF r = <<>> THEN n ELSE Src(Max2(n, Head(r).from), Tail(r))
    IN  Src(0, ts) + 1
n_state_js(ts) == MaxFrom(0, ts) + 1

\* Python: max(itertools.chain(*((t[0], t[1]) for t in transitions))) + 1;
\* max() of an empty sequence raises ValueError.
RECURSIVE chain(_)
chain(ts) ==
    IF ts = <<>> THEN <<>> ELSE <<Head(ts).from, Head(ts).to>> \o chain(Tail(ts))
RECURSIVE max(_, _)
max(m, xs) == IF xs = <<>> THEN m ELSE max(Max2(m, Head(xs)), Tail(xs))
\* n_state_py without the one added to the largest index.
n_state_py_largest(ts) == max(Head(chain(ts)), Tail(chain(ts)))
n_state_py(ts) == max(Head(chain(ts)), Tail(chain(ts))) + 1

\* The transition at which fsg_model_word_add returns -1: 0 when it never
\* does, else the place of a transition that carries a word.
WordAddFailures(ts) == {0} \cup {i \in 1..Len(ts) : ts[i].word # ""}

\* logmath_log: the logarithm of a probability, in units of log(0.5).
logmath_log(p) == IF p = "1.0" THEN 0 ELSE -1

\* fsg_model_init: an automaton of n states, without transitions or words.
fsg_model_init(n) ==
    [n_state |-> n, start |-> 0, final |-> 0, arcs |-> <<>>, words |-> <<>>, calls |-> <<>>]

\* fsg_model_word_add always appending.
fsg_model_word_append(words, text) ==
    [id |-> Len(words), words |-> Append(words, text)]

\* fsg_model_word_add: the id of text in the word table, appended when new.
fsg_model_word_add(words, text) ==
    IF \E i \in 1..Len(words) : words[i] = text
    THEN [id |-> (CHOOSE i \in 1..Len(words) : words[i] = text) - 1, words |-> words]
    ELSE [id |-> Len(words), words |-> Append(words, text)]

\* fsg_model_trans_add and fsg_model_null_trans_add: one transition more,
\* a null one with word id -1.
fsg_model_trans_add(arcs, from, to, logp, wid) ==
    Append(arcs, [from |-> from, to |-> to, logp |-> logp, wid |-> wid])
fsg_model_null_trans_add(arcs, from, to, logp) ==
    Append(arcs, [from |-> from, to |-> to, logp |-> logp, wid |-> -1])

\* AddTuple labelling every transition with word id 0.
AddTupleFirstId(g, t) ==
    IF t.word # ""
    THEN LET r == fsg_model_word_add(g.words, t.word)
         IN  [g EXCEPT !.words = r.words,
                       !.calls = Append(@, [text |-> t.word, id |-> r.id, size |-> Len(r.words)]),
                       !.arcs = fsg_model_trans_add(@, t.from, t.to, logmath_log(t.prob), 0)]
    ELSE [g EXCEPT !.arcs = fsg_model_null_trans_add(@, t.from, t.to, logmath_log(t.prob))]

\* The body of the loop of create_fsg for a tuple whose word, if any, the
\* word table took: the word is added and the transition appended with the
\* id returned; a tuple without a word gives a null transition.
AddTuple(g, t) ==
    IF t.word # ""
    THEN LET r == fsg_model_word_add(g.words, t.word)
         IN  [g EXCEPT !.words = r.words,
                       !.calls = Append(@, [text |-> t.word, id |-> r.id, size |-> Len(r.words)]),
                       !.arcs = fsg_model_trans_add(@, t.from, t.to, logmath_log(t.prob), r.id)]
    ELSE [g EXCEPT !.arcs = fsg_model_null_trans_add(@, t.from, t.to, logmath_log(t.prob))]

\* The loop of create_fsg over the first n tuples.
RECURSIVE AddTuples(_, _, _)
AddTuples(g, ts, n) ==
    IF n = 0 THEN g ELSE AddTuple(AddTuples(g, ts, n - 1), ts[n])

\* create_fsg after the state count is known: the automaton is created,
\* start and final are recorded as given, and the tuples are added up to
\* the one, if any, whose word fsg_model_word_add refuses (bad).
BuildFsg(n, ts, bad) ==
    LET g0 == [fsg_model_init(n) EXCEPT !.start = ends[1], !.final = ends[2]]
    IN  AddTuples(g0, ts, IF bad = 0 THEN Len(ts) ELSE bad - 1)

\* Decoder.create_fsg of the JavaScript binding.
CreateFsgJs ==
    /\ fsg["js"] = NoFsg
    /\ LET e == assert_initialized
       IN  IF e # "none"
           THEN fsg' = [fsg EXCEPT !["js"] = FsgResult(e, NoAutomaton)]
           ELSE \E bad \in WordAddFailures(trans) :
                   fsg' = [fsg EXCEPT !["js"] =
                             FsgResult(IF bad = 0 THEN "fsg" ELSE "0",
                                       BuildFsg(n_state_js(trans), trans, bad))]
    /\ UNCHANGED <<decVars, engVars, callVars, files, last, notFsg, trans, ends>>

\* Decoder.create_fsg of the Python binding.
CreateFsgPy ==
    /\ fsg["py"] = NoFsg
    /\ IF trans = <<>>
       THEN fsg' = [fsg EXCEPT !["py"] = FsgResult("ValueError", NoAutomaton)]
       ELSE \E bad \in WordAddFailures(trans) :
               fsg' = [fsg EXCEPT !["py"] =
                         FsgResult(IF bad = 0 THEN "fsg" ELSE "RuntimeError",
                                   BuildFsg(n_state_py(trans), trans, bad))]
    /\ UNCHANGED <<decVars, engVars, callVars, files, last, notFsg, trans, ends>>

\* A decoder whose initialize() completed.
OperationalDecoder ==
    /\ ps = 1
    /\ initialized = TRUE
    /\ cmd_ln = 1
    /\ store = DefaultStore
    /\ hstage = 10
    /\ gmmArgs = [called |-> TRUE, mixw |-> 0, sendump |-> 1]
    /\ mixwCause = "none"
    /\ files = {"sendump"}
    /\ pc = [c \in Calls |-> IF c = "A" THEN "done" ELSE "idle"]
    /\ kind = [c \in Calls |-> "initialize"]
    /\ log = [c \in Calls |-> IF c = "A" THEN InitializeOrder ELSE <<>>]
    /\ err = [c \in Calls |-> "none"]
    /\ early = [c \in Calls |-> FALSE]
    /\ started = 1
    /\ cont = [c \in Calls |-> NoContainers]
    /\ ndone = 1
    /\ last = [op |-> "none", err |-> "none", engine |-> FALSE]


\* An operational decoder and a transition list to compile.
InitFsg ==
    /\ OperationalDecoder
    /\ CfgIdle
    /\ JsgfIdle
    /\ S3Idle
    /\ KeyIdle
    /\ trans \in SeqsUpTo(PlainTransition, MaxTrans)
    /\ ends = <<0, 0>>
    /\ fsg = [b \in Bindings |-> NoFsg]

\* The same, with lists that repeat and mix words and probabilities.
InitFsgWords ==
    /\ OperationalDecoder
    /\ CfgIdle
    /\ JsgfIdle
    /\ S3Idle
    /\ KeyIdle
    /\ trans \in SeqsUpTo(RingTransition, MaxTrans)
    /\ ends = <<0, MaxState>>
    /\ fsg = [b \in Bindings |-> NoFsg]

\* The same, with any start_state and final_state, also ones past every
\* state the list mentions.
InitFsgEnds ==
    /\ OperationalDecoder
    /\ CfgIdle
    /\ JsgfIdle
    /\ S3Idle
    /\ KeyIdle
    /\ trans \in SeqsUpTo(PlainTransition \cap RingTransition, MaxTrans)
    /\ ends \in (0..MaxState + 1) \X (0..MaxState + 1)
    /\ fsg = [b \in Bindings |-> NoFsg]

NextFsg ==
    \/ CreateFsgJs
    \/ CreateFsgPy

SpecFsg == InitFsg /\ [][NextFsg]_vars
SpecFsgWords == InitFsgWords /\ [][NextFsg]_vars
SpecFsgEnds == InitFsgEnds /\ [][NextFsg]_vars


(***************************************************************************)
(* Grammar text compilation (parse_jsgf).                                  *)
(***************************************************************************)
RuleNames == {"r", "s", "t"}
Rule == [name : RuleNames, public : BOOLEAN]
\* The rule sets a text can define: up to MaxRules rules, no name twice.
RuleSets ==
    {rs \in SeqsUpTo(Rule, MaxRules) :
        \A i, j \in 1..Len(rs) : rs[i].name = rs[j].name => i = j}
\* The rule name a caller may give: none (""), or a name.
TopRules == {""} \cup RuleNames

\* jsgf_get_rule: the place of the rule of that name, 0 when there is none.
jsgf_get_rule(rules, name) ==
    IF \E i \in 1..Len(rules) : rules[i].name = name
    THEN CHOOSE i \in 1..Len(rules) : rules[i].name = name
    ELSE 0

\* jsgf_get_public_rule: the place of the first public rule, 0 when no
\* rule is public.
jsgf_get_public_rule(rules) ==
    IF \E i \in 1..Len(rules) : rules[i].public
    THEN CHOOSE i \in 1..Len(rules) :
            rules[i].public /\ \A j \in 1..(i - 1) : ~rules[j].public
    ELSE 0

\* parse_jsgf: the rule the automaton is built from, 0 when there is none.
ResolveRule(rules, toprule) ==
    IF toprule # "" THEN jsgf_get_rule(rules, toprule)
    ELSE jsgf_get_public_rule(rules)

\* Decoder.parse_jsgf of the JavaScript binding: every failure is thrown as
\* an Error, and the parsed grammar is released only after the build.
ParseJsgfJs ==
    /\ jsgfOut["js"] = NoJsgf
    /\ LET e == assert_initialized
           rule == ResolveRule(jsgfIn.rules, jsgfIn.toprule)
       IN  \E automaton \in BOOLEAN :      \* Module._jsgf_build_fsg gave an automaton, or 0
           jsgfOut' = [jsgfOut EXCEPT !["js"] =
              IF e # "none"
              THEN [result |-> e, rule |-> 0, built |-> FALSE, freed |-> FALSE]
              ELSE IF ~jsgfIn.ok
              THEN [result |-> "Error", rule |-> 0, built |-> FALSE, freed |-> FALSE]
              ELSE IF rule = 0
              THEN [result |-> "Error", rule |-> 0, built |-> FALSE, freed |-> FALSE]
              ELSE [result |-> "fsg", rule |-> rule, built |-> automaton, freed |-> TRUE]]
    /\ UNCHANGED <<decVars, engVars, callVars, files, last, notJsgf, jsgfIn>>

\* Decoder.parse_jsgf of the Python binding: every failure is raised as a
\* RuntimeError, the parsed grammar released first.
ParseJsgfPy ==
    /\ jsgfOut["py"] = NoJsgf
    /\ LET rule == ResolveRule(jsgfIn.rules, jsgfIn.toprule)
       IN  \E automaton \in BOOLEAN :      \* jsgf_build_fsg gave an automaton, or NULL
           jsgfOut' = [jsgfOut EXCEPT !["py"] =
              IF ~jsgfIn.ok
              THEN [result |-> "RuntimeError", rule |-> 0, built |-> FALSE, freed |-> FALSE]
              ELSE IF rule = 0
              THEN [result |-> "RuntimeError", rule |-> 0, built |-> FALSE, freed |-> TRUE]
              ELSE [result |-> "fsg", rule |-> rule, built |-> automaton, freed |-> TRUE]]
    /\ UNCHANGED <<decVars, engVars, callVars, files, last, notJsgf, jsgfIn>>

\* An operational decoder, a grammar text and a rule name.
InitJsgf ==
    /\ OperationalDecoder
    /\ CfgIdle
    /\ FsgIdle
    /\ S3Idle
    /\ KeyIdle
    /\ jsgfIn \in [ok : BOOLEAN, rules : RuleSets, toprule : TopRules]
    /\ jsgfIn.ok \/ jsgfIn.rules = <<>>
    /\ jsgfOut = [b \in Bindings |-> NoJsgf]

NextJsgf ==
    \/ ParseJsgfJs
    \/ ParseJsgfPy

SpecJsgf == InitJsgf /\ [][NextJsgf]_vars

(***************************************************************************)
(* Key resolution in the two bindings.                                     *)
(***************************************************************************)
\* Config._normalize_key (Python)
normalize_key_py(key) ==
    IF key # EmptyKey /\ key.pre = "_" THEN Bytes8(key)
    ELSE IF key # EmptyKey /\ key.pre = "-"
         THEN IF has(Key("_", key.name)) THEN Bytes8(Key("_", key.name)) ELSE Bytes8(key)
    ELSE IF key # EmptyKey /\ has(Key("_", key.name)) THEN Bytes8(Key("_", key.name))
    ELSE IF key # EmptyKey /\ has(Key("-", key.name)) THEN Bytes8(Key("-", key.name))
    ELSE Bytes8(key)

\* Config.normalize_key as first written (JavaScript): no else branch
\* for the key of length 0.
normalize_key_earlier(key) ==
    IF key # EmptyKey
    THEN IF key.pre = "_" THEN String(key)
         ELSE IF key.pre = "-"
              THEN IF has(Key("_", key.name)) THEN String(Key("_", key.name)) ELSE String(key)
         ELSE IF has(Key("_", key.name)) THEN String(Key("_", key.name))
         ELSE IF has(Key("-", key.name)) THEN String(Key("-", key.name))
         ELSE String(key)
    ELSE Undefined

\* Keys to resolve: names the store defines with a dash only, with a
\* dash and an underscore, not at all, and the name of length 0, each
\* written with a dash, an underscore or neither.
KeyNames == {"mdef", "hmm", "nfilt", "lowerf", "zz", ""}
KeysAsked == {Key(pre, n) : pre \in {"", "-", "_"}, n \in KeyNames}

Resolve(b, out) ==
    /\ resolved.out[b] = Unresolved
    /\ resolved' = [resolved EXCEPT !.out[b] = out]
    /\ UNCHANGED <<decVars, engVars, callVars, files, last, cfgVars, fsgVars, jsgfVars,
                   s3Vars, iter>>

NormalizePy == Resolve("py", normalize_key_py(resolved.key))
NormalizeJs == Resolve("js", String(normalize_key(resolved.key)))
NormalizeEarlier == Resolve("earlier", normalize_key_earlier(resolved.key))

\* The configuration of an operational decoder and a key to resolve.
InitKey ==
    /\ OperationalDecoder
    /\ CfgIdle
    /\ FsgIdle
    /\ JsgfIdle
    /\ S3Idle
    /\ resolved \in [key : KeysAsked, out : {[b \in Resolvers |-> Unresolved]}]
    /\ iter = NoIteration

NextKey ==
    \/ NormalizePy
    \/ NormalizeJs
    \/ NormalizeEarlier

SpecKey == InitKey /\ [][NextKey]_vars

(***************************************************************************)
(* Iteration over the stored parameters.                                   *)
(***************************************************************************)
\* Config.normalize_ckey (JavaScript): the stored key without its '-' or
\* '_'.
normalize_ckey(key) ==
    IF key = EmptyKey THEN key
    ELSE IF key.pre \in {"-", "_"} THEN Key("", key.name)
    ELSE key

\* Config._normalize_ckey (Python): no return statement for a key that
\* starts with neither, so None.
None == Key("None", "")
normalize_ckey_py(key) ==
    IF key = EmptyKey THEN key
    ELSE IF key.pre \in {"-", "_"} THEN Key("", key.name)
    ELSE None

\* The hash table behind a Config, in the order its iterator walks it:
\* parameters of the engine's table, among them one stored both with a
\* dash and with an underscore.
IterKeys == {Key("-", "hmm"), Key("-", "mdef"), Key("_", "mdef")}
Tables ==
    UNION { { t \in [1..Cardinality(S) -> S] : \A i, j \in DOMAIN t : t[i] = t[j] => i = j }
            : S \in SUBSET IterKeys }

\* One resumption of the generator Config[Symbol.iterator]: the loop runs
\* to the next yield, to its end, or, once the key at the iterator was
\* seen before, around the continue without moving the iterator.
IterNextJs ==
    /\ iter.js.state \in {"none", "suspended"}
    /\ LET g == iter.js
           key == normalize_ckey(iter.table[g.at])
       IN  iter' = [iter EXCEPT !.js =
                IF g.at > Len(iter.table) THEN [g EXCEPT !.state = "done"]
                ELSE IF key \in g.seen THEN [g EXCEPT !.state = "spinning"]
                ELSE [state |-> "suspended", at |-> g.at + 1, seen |-> g.seen \cup {key},
                      yielded |-> Append(g.yielded, key)]]
    /\ UNCHANGED <<decVars, engVars, callVars, files, last, cfgVars, fsgVars, jsgfVars,
                   s3Vars, resolved>>

\* Config.__iter__ (Python): the set of the normalized keys.
IterPy ==
    /\ iter.py.state = "none"
    /\ iter' = [iter EXCEPT !.py =
            [state |-> "iterating",
             keys |-> {normalize_ckey_py(iter.table[i]) : i \in 1..Len(iter.table)},
             yielded |-> <<>>]]
    /\ UNCHANGED <<decVars, engVars, callVars, files, last, cfgVars, fsgVars, jsgfVars,
                   s3Vars, resolved>>

\* next() on the iterator of that set.
NextPy ==
    /\ iter.py.state = "iterating"
    /\ LET g == iter.py
           rest == g.keys \ {g.yielded[i] : i \in 1..Len(g.yielded)}
       IN  IF rest = {}
           THEN iter' = [iter EXCEPT !.py.state = "done"]
           ELSE \E key \in rest : iter' = [iter EXCEPT !.py.yielded = Append(@, key)]
    /\ UNCHANGED <<decVars, engVars, callVars, files, last, cfgVars, fsgVars, jsgfVars,
                   s3Vars, resolved>>

\* The configuration of an operational decoder, to iterate over.
InitIter ==
    /\ OperationalDecoder
    /\ CfgIdle
    /\ FsgIdle
    /\ JsgfIdle
    /\ S3Idle
    /\ resolved = [key |-> EmptyKey, out |-> [b \in Resolvers |-> Unresolved]]
    /\ iter \in [table : Tables, js : {NoIteration.js}, py : {NoIteration.py}]

NextIter ==
    \/ IterNextJs
    \/ IterPy
    \/ NextPy

SpecIter == InitIter /\ [][NextIter]_vars

(***************************************************************************)
(* The container parser (s3file).                                          *)
(*                                                                         *)
(* A buffer is a sequence of bytes. A 32-bit word is a pair <<hi, lo>> of  *)
(* 16-bit halves, so that the checksum keeps its width. The host stores    *)
(* the least significant byte first.                                       *)
(***************************************************************************)
LF == 10
SP == 32
QUOTE == 34
HASH == 35
\* "s3" and "endhdr"
S3Line == <<115, 51>>
EndHdr == <<101, 110, 100, 104, 100, 114>>
\* The order marker, 0x11223344.
BYTE_ORDER_MAGIC == <<4386, 13124>>
ElSizes == {1, 2, 4}

RECURSIVE Reverse(_)
Reverse(q) == IF q = <<>> THEN <<>> ELSE Append(Reverse(Tail(q)), Head(q))

RECURSIVE Flatten(_)
Flatten(qs) == IF qs = <<>> THEN <<>> ELSE Head(qs) \o Flatten(Tail(qs))

\* The bytes of an element in host order, and the element those bytes hold.
HostBytes(w, el_sz) ==
    IF el_sz = 1 THEN <<w[2] % 256>>
    ELSE IF el_sz = 2 THEN <<w[2] % 256, w[2] \div 256>>
    ELSE <<w[2] % 256, w[2] \div 256, w[1] % 256, w[1] \div 256>>
HostValue(bytes) ==
    IF Len(bytes) = 1 THEN <<0, bytes[1]>>
    ELSE IF Len(bytes) = 2 THEN <<0, bytes[1] + 256 * bytes[2]>>
    ELSE <<bytes[3] + 256 * bytes[4], bytes[1] + 256 * bytes[2]>>

\* sum rotated left by k bits, k < 16, and the sum of two words, in 32 bits.
Shl(h, k) == IF k = 4 THEN h * 16 ELSE IF k = 5 THEN h * 32 ELSE h * 1024
Shr(h, k) == IF k = 4 THEN h \div 4096 ELSE IF k = 5 THEN h \div 2048 ELSE h \div 64
Rotl(w, k) ==
    <<(Shl(w[1], k) % 65536) + Shr(w[2], k), (Shl(w[2], k) % 65536) + Shr(w[1], k)>>
Add32(a, b) ==
    <<(a[1] + b[1] + ((a[2] + b[2]) \div 65536)) % 65536, (a[2] + b[2]) % 65536>>

\* chksum_accum for one element: the sum so far is rotated left by 5, 10
\* or 20 bits for elements of 1, 2 or 4 bytes, and the element added.
chksum_accum(sum, w, el_sz) ==
    IF el_sz = 1 THEN Add32(Rotl(sum, 5), w)
    ELSE IF el_sz = 2 THEN Add32(Rotl(sum, 10), w)
    ELSE Add32(Rotl(<<sum[2], sum[1]>>, 4), w)

\* s3file_init: the buffer wrapped, nothing parsed.
s3file_init(buf) ==
    [buf |-> buf, ptr |-> 0, end |-> Len(buf), headers |-> <<>>,
     swap |-> 0, chksum |-> <<0, 0>>, usable |-> TRUE]

\* The bytes of buf from offset p, n of them.
Bytes(buf, p, n) == SubSeq(buf, p + 1, p + n)

\* The offset of the first line feed at or after offset p, -1 when the
\* buffer has none.
LineEnd(buf, p) ==
    IF \E i \in (p + 1)..Len(buf) : buf[i] = LF
    THEN (CHOOSE i \in (p + 1)..Len(buf) :
            buf[i] = LF /\ \A j \in (p + 1)..(i - 1) : buf[j] # LF) - 1
    ELSE -1

\* A header line split into its name and its value, bare or quoted; the
\* line has no name/value form when it has no blank.
HasBlank(line) == \E i \in 1..Len(line) : line[i] = SP
SplitLine(line) ==
    LET b == CHOOSE i \in 1..Len(line) :
                line[i] = SP /\ \A j \in 1..(i - 1) : line[j] # SP
        rest == SubSeq(line, b + 1, Len(line))
    IN  [name |-> SubSeq(line, 1, b - 1),
         value |-> IF Len(rest) >= 2 /\ rest[1] = QUOTE /\ rest[Len(rest)] = QUOTE
                   THEN SubSeq(rest, 2, Len(rest) - 1)
                   ELSE rest]

\* The header lines from offset p up to the endhdr line.
RECURSIVE ParseLines(_, _, _)
ParseLines(buf, p, hdrs) ==
    LET e == LineEnd(buf, p)
        line == Bytes(buf, p, e - p)
    IN  IF e = -1 THEN [ok |-> FALSE, ptr |-> p, headers |-> hdrs]
        ELSE IF line = EndHdr THEN [ok |-> TRUE, ptr |-> e + 1, headers |-> hdrs]
        ELSE IF line # <<>> /\ line[1] = HASH THEN ParseLines(buf, e + 1, hdrs)
        ELSE IF ~HasBlank(line) THEN [ok |-> FALSE, ptr |-> e + 1, headers |-> hdrs]
        ELSE ParseLines(buf, e + 1, Append(hdrs, SplitLine(line)))

\* s3file_parse_header taking any order marker for the native one.
s3file_parse_header_any(s) ==
    LET e == LineEnd(s.buf, s.ptr)
        h == ParseLines(s.buf, e + 1, <<>>)
    IN  IF e = -1 \/ Bytes(s.buf, s.ptr, e - s.ptr) # S3Line \/ ~h.ok \/ s.end - h.ptr < 4
        THEN [s |-> [s EXCEPT !.usable = FALSE], ret |-> -1]
        ELSE [s |-> [s EXCEPT !.ptr = h.ptr + 4, !.headers = h.headers,
                              !.swap = 0, !.chksum = <<0, 0>>],
              ret |-> 0]

\* s3file_parse_header: the container after the call and the value returned.
s3file_parse_header(s) ==
    LET e == LineEnd(s.buf, s.ptr)
        first == Bytes(s.buf, s.ptr, e - s.ptr)
        h == ParseLines(s.buf, e + 1, <<>>)
        marker == Bytes(s.buf, h.ptr, 4)
    IN  IF e = -1 \/ first # S3Line
        THEN [s |-> [s EXCEPT !.usable = FALSE], ret |-> -1]
        ELSE IF ~h.ok \/ s.end - h.ptr < 4
        THEN [s |-> [s EXCEPT !.ptr = h.ptr, !.usable = FALSE], ret |-> -1]
        ELSE IF HostValue(marker) = BYTE_ORDER_MAGIC
        THEN [s |-> [s EXCEPT !.ptr = h.ptr + 4, !.headers = h.headers,
                              !.swap = 0, !.chksum = <<0, 0>>],
              ret |-> 0]
        ELSE IF HostValue(Reverse(marker)) = BYTE_ORDER_MAGIC
        THEN [s |-> [s EXCEPT !.ptr = h.ptr + 4, !.headers = h.headers,
                              !.swap = 1, !.chksum = <<0, 0>>],
              ret |-> 0]
        ELSE [s |-> [s EXCEPT !.ptr = h.ptr + 4, !.usable = FALSE], ret |-> -1]

\* Elements without the correction of the byte order.
RECURSIVE ElementsUnswapped(_, _, _, _, _)
ElementsUnswapped(buf, p, el_sz, n_el, swap) ==
    IF n_el = 0 THEN <<>>
    ELSE <<HostValue(Bytes(buf, p, el_sz))>>
             \o ElementsUnswapped(buf, p + el_sz, el_sz, n_el - 1, swap)

\* The n_el elements of el_sz bytes at offset p, byte order corrected.
RECURSIVE Elements(_, _, _, _, _)
Elements(buf, p, el_sz, n_el, swap) ==
    IF n_el = 0 THEN <<>>
    ELSE LET raw == Bytes(buf, p, el_sz)
         IN  <<HostValue(IF swap = 1 /\ el_sz \in {2, 4} THEN Reverse(raw) ELSE raw)>>
                 \o Elements(buf, p + el_sz, el_sz, n_el - 1, swap)

\* The checksum after the elements of vals are folded into it, in order.
RECURSIVE Accumulate(_, _, _)
Accumulate(sum, vals, el_sz) ==
    IF vals = <<>> THEN sum
    ELSE Accumulate(chksum_accum(sum, Head(vals), el_sz), Tail(vals), el_sz)

\* What a read leaves: the container, the value returned (-1 for an
\* error), the elements read, and whether a fatal diagnostic was raised.
ReadResult(s, ret, vals, fatal) == [s |-> s, ret |-> ret, vals |-> vals, fatal |-> fatal]

\* s3file_get moving the cursor without looking at the bytes that remain.
s3file_get_unchecked(s, el_sz, n_el) ==
    ReadResult([s EXCEPT !.ptr = s.ptr + el_sz * n_el], n_el, <<>>, FALSE)

\* s3file_get: n_el elements of el_sz bytes at the cursor. Too few bytes
\* left is fatal; a container that parse_header rejected yields nothing.
s3file_get(s, el_sz, n_el) ==
    IF ~s.usable THEN ReadResult(s, -1, <<>>, FALSE)
    ELSE IF s.end - s.ptr < el_sz * n_el THEN ReadResult(s, -1, <<>>, TRUE)
    ELSE LET vals == Elements(s.buf, s.ptr, el_sz, n_el, s.swap)
         IN  ReadResult([s EXCEPT !.ptr = s.ptr + el_sz * n_el,
                                  !.chksum = Accumulate(s.chksum, vals, el_sz)],
                        n_el, vals, FALSE)

\* The leading dimension counts of an array, read one by one; a count of
\* more than 16 bits is kept as MaxCount + 1, too large for any buffer here.
RECURSIVE GetDims(_, _)
GetDims(s, nd) ==
    IF nd = 0 THEN ReadResult(s, 0, <<>>, FALSE)
    ELSE LET r == s3file_get(s, 4, 1)
         IN  IF r.ret # 1 THEN r
             ELSE LET rest == GetDims(r.s, nd - 1)
                  IN  IF rest.ret = -1 THEN ReadResult(rest.s, -1, r.vals, rest.fatal)
                      ELSE ReadResult(rest.s, 0, r.vals \o rest.vals, FALSE)

\* The number of elements the counts announce, capped above any buffer.
RECURSIVE Product(_)
Product(dims) ==
    IF dims = <<>> THEN 1
    ELSE IF Head(dims)[1] # 0 \/ Head(dims)[2] > MaxCount THEN MaxCount + 1
    ELSE LET rest == Product(Tail(dims))
         IN  IF Head(dims)[2] * rest > MaxCount THEN MaxCount + 1
             ELSE Head(dims)[2] * rest

\* s3file_get_1d, s3file_get_2d and s3file_get_3d: nd counts, a check
\* that the elements they announce fit in what remains, then the elements.
GetArray(s, el_sz, nd) ==
    LET d == GetDims(s, nd)
        n == Product(d.vals)
    IN  IF d.ret = -1 THEN ReadResult(d.s, -1, <<>>, d.fatal)
        ELSE IF n * el_sz > d.s.end - d.s.ptr THEN ReadResult(d.s, -1, <<>>, FALSE)
        ELSE LET r == s3file_get(d.s, el_sz, n)
             IN  ReadResult(r.s, r.ret, d.vals \o r.vals, r.fatal)
s3file_get_1d(s, el_sz) == GetArray(s, el_sz, 1)
s3file_get_2d(s, el_sz) == GetArray(s, el_sz, 2)
s3file_get_3d(s, el_sz) == GetArray(s, el_sz, 3)

\* s3file_verify_chksum folding the stored checksum into the accumulated one
\* before the comparison.
s3file_verify_chksum_folded(s) ==
    IF ~s.usable THEN ReadResult(s, -1, <<>>, FALSE)
    ELSE IF s.end - s.ptr < 4 THEN ReadResult(s, -1, <<>>, TRUE)
    ELSE LET stored == Elements(s.buf, s.ptr, 4, 1, s.swap)
         IN  ReadResult([s EXCEPT !.ptr = s.ptr + 4],
                        IF stored[1] = chksum_accum(s.chksum, stored[1], 4) THEN 0 ELSE -1,
                        stored, FALSE)

\* s3file_verify_chksum: the stored checksum is read, byte order corrected
\* and not folded in, and compared with the checksum accumulated.
s3file_verify_chksum(s) ==
    IF ~s.usable THEN ReadResult(s, -1, <<>>, FALSE)
    ELSE IF s.end - s.ptr < 4 THEN ReadResult(s, -1, <<>>, TRUE)
    ELSE LET stored == Elements(s.buf, s.ptr, 4, 1, s.swap)
         IN  ReadResult([s EXCEPT !.ptr = s.ptr + 4],
                        IF stored[1] = s.chksum THEN 0 ELSE -1, stored, FALSE)

(***************************************************************************)
(* Containers to read, and the calls made on them.                         *)
(***************************************************************************)
\* A header line: an entry or a comment, a name and a value.
NameA == <<97>>
Value1 == <<49>>
Value1Blank2 == <<49, 32, 50>>
Line == [comment : BOOLEAN, name : {NameA}, value : {Value1, Value1Blank2}]
LineBytes(l) ==
    (IF l.comment THEN <<HASH>> ELSE <<>>) \o l.name \o <<SP>>
        \o (IF HasBlank(l.value) THEN <<QUOTE>> \o l.value \o <<QUOTE>> ELSE l.value)
        \o <<LF>>

\* A record: nd leading counts and the elements, of el_sz bytes each.
\* Elements of each size; those of 4 bytes differ in every byte.
ValsOf(el_sz) ==
    IF el_sz = 1 THEN {<<0, 127>>, <<0, 1>>}
    ELSE IF el_sz = 2 THEN {<<0, 258>>}
    ELSE {<<258, 772>>, <<32768, 1>>}
DimsOf(nd) ==
    IF nd = 0 THEN {<<>>}
    ELSE IF nd = 1 THEN {<<1>>, <<2>>}
    ELSE IF nd = 2 THEN {<<1, 2>>, <<2, 1>>}
    ELSE {<<1, 1, 2>>, <<2, 1, 1>>}
RECURSIVE Times(_)
Times(dims) == IF dims = <<>> THEN 1 ELSE Head(dims) * Times(Tail(dims))
Record ==
    UNION {UNION {UNION {
        {[nd |-> nd, el_sz |-> z, dims |-> d,
          vals |-> [i \in 1..n |-> IF i = 1 THEN x ELSE <<0, 1>>]] :
            x \in ValsOf(z), n \in IF nd = 0 THEN {1, 2} ELSE {Times(d)}} :
        d \in DimsOf(nd)} : nd \in 0..3} : z \in ElSizes}

\* The words of a record in the order they are read, with their sizes.
CountWords(rec) == [i \in 1..Len(rec.dims) |-> <<0, rec.dims[i]>>]
\* The bytes of a sequence of elements in the byte order of a view.
ViewBytes(vals, el_sz, v) ==
    Flatten([i \in 1..Len(vals) |->
        IF v = "native" THEN HostBytes(vals[i], el_sz)
        ELSE Reverse(HostBytes(vals[i], el_sz))])
RecordBytes(rec, v) ==
    ViewBytes(CountWords(rec), 4, v) \o ViewBytes(rec.vals, rec.el_sz, v)

\* The accumulation of every word of the records, in order.
RECURSIVE Checksum(_, _)
Checksum(sum, recs) ==
    IF recs = <<>> THEN sum
    ELSE Checksum(Accumulate(Accumulate(sum, CountWords(Head(recs)), 4),
                             Head(recs).vals, Head(recs).el_sz),
                  Tail(recs))

\* The container: first line, header lines, endhdr, order marker,
\* records, checksum.
HeaderBytes(lines) ==
    S3Line \o <<LF>> \o Flatten([i \in 1..Len(lines) |-> LineBytes(lines[i])])
        \o EndHdr \o <<LF>>
Serialize(lines, recs, v) ==
    HeaderBytes(lines) \o ViewBytes(<<BYTE_ORDER_MAGIC>>, 4, v)
        \o Flatten([i \in 1..Len(recs) |-> RecordBytes(recs[i], v)])
        \o ViewBytes(<<Checksum(<<0, 0>>, recs)>>, 4, v)

\* What can be wrong with a container: its first line, its order marker,
\* its last byte missing, one bit of its first byte after the marker.
Damages == {"none", "first", "marker", "short", "flip"}
FlipBit(b) == IF b % 2 = 0 THEN b + 1 ELSE b - 1
Damage(buf, at, damage) ==
    IF damage = "first" THEN [buf EXCEPT ![2] = 52]
    ELSE IF damage = "marker" THEN [buf EXCEPT ![at + 1] = FlipBit(buf[at + 1])]
    ELSE IF damage = "short" THEN SubSeq(buf, 1, Len(buf) - 1)
    ELSE IF damage = "flip" THEN [buf EXCEPT ![at + 5] = FlipBit(buf[at + 5])]
    ELSE buf
\* The byte b with one of its 8 bits flipped.
FlipBitAt(b, bit) == IF (b \div (2 ^ bit)) % 2 = 0 THEN b + 2 ^ bit ELSE b - 2 ^ bit
\* The bytes of the records of a container: what lies between the order
\* marker and the checksum.
RegionLen(recs) == Len(Flatten([i \in 1..Len(recs) |-> RecordBytes(recs[i], "native")]))
\* The buffer handed to s3file_init: the serialization, damaged or with the
\* bit src.bit of the byte src.at of its records flipped.
Buffer(src, v) ==
    LET buf == Serialize(src.lines, src.recs, v)
        at == Len(HeaderBytes(src.lines))
    IN  IF src.damage = "bit"
        THEN [buf EXCEPT ![at + 5 + src.at] = FlipBitAt(buf[at + 5 + src.at], src.bit)]
        ELSE Damage(buf, at, src.damage)

\* E_FATAL and E_FATAL_SYSTEM: the message is logged and the process exits.
E_FATAL == "exited"

\* The call a reader of the records makes i-th: parse_header, one read for
\* each record, verify_chksum.
Expected(src, i) ==
    IF i = 0 THEN [op |-> "parse_header", el_sz |-> 0, n_el |-> 0]
    ELSE IF i <= Len(src.recs)
    THEN LET rec == src.recs[i]
         IN  [op |-> IF rec.nd = 0 THEN "get"
                     ELSE IF rec.nd = 1 THEN "get_1d"
                     ELSE IF rec.nd = 2 THEN "get_2d" ELSE "get_3d",
              el_sz |-> rec.el_sz,
              n_el |-> IF rec.nd = 0 THEN Len(rec.vals) ELSE 0]
    ELSE IF i = Len(src.recs) + 1 THEN [op |-> "verify_chksum", el_sz |-> 0, n_el |-> 0]
    ELSE [op |-> "none", el_sz |-> 0, n_el |-> 0]

\* One call, made on each serialization whose process still runs; r is
\* what the call makes of each container. A caller
\* that reads the records as written makes the expected call; any other
\* caller makes up to MaxCalls calls of its choice.
S3Call(op, el_sz, n_el, r) ==
    /\ \E v \in Views : proc[v] = "running"
    /\ \A v \in Views : proc[v] = "running" =>
          IF s3src.mode = "free" THEN Len(s3log[v]) < MaxCalls
          ELSE Expected(s3src, Len(s3log[v])) = [op |-> op, el_sz |-> el_sz, n_el |-> n_el]
    /\ s3' = [v \in Views |-> IF proc[v] = "running" THEN r[v].s ELSE s3[v]]
    /\ proc' = [v \in Views |->
          IF proc[v] = "running" /\ r[v].fatal THEN E_FATAL ELSE proc[v]]
    /\ s3log' = [v \in Views |->
          IF proc[v] = "running"
          THEN Append(s3log[v], [op |-> op, el_sz |-> el_sz, n_el |-> n_el,
                                 ret |-> r[v].ret, vals |-> r[v].vals,
                                 fatal |-> r[v].fatal])
          ELSE s3log[v]]
    /\ UNCHANGED <<decVars, engVars, callVars, files, last, notS3, s3src, s3ref>>

\* s3file_parse_header, its outcome in the form of a read's.
ParseHeaderResult(s) ==
    LET r == s3file_parse_header(s) IN ReadResult(r.s, r.ret, <<>>, FALSE)
ParseHeader ==
    S3Call("parse_header", 0, 0, [v \in Views |-> ParseHeaderResult(s3[v])])

Get ==
    \E el_sz \in ElSizes, n_el \in 1..2 :
        S3Call("get", el_sz, n_el, [v \in Views |-> s3file_get(s3[v], el_sz, n_el)])

Get1d ==
    \E el_sz \in ElSizes :
        S3Call("get_1d", el_sz, 0, [v \in Views |-> s3file_get_1d(s3[v], el_sz)])

Get2d ==
    \E el_sz \in ElSizes :
        S3Call("get_2d", el_sz, 0, [v \in Views |-> s3file_get_2d(s3[v], el_sz)])

Get3d ==
    \E el_sz \in ElSizes :
        S3Call("get_3d", el_sz, 0, [v \in Views |-> s3file_get_3d(s3[v], el_sz)])

VerifyChksum ==
    S3Call("verify_chksum", 0, 0, [v \in Views |-> s3file_verify_chksum(s3[v])])

\* A decoder not yet initialized and a container just wrapped.
S3Opened ==
    /\ ps = 1
    /\ initialized = FALSE
    /\ cmd_ln = 1
    /\ store = DefaultStore
    /\ hstage = 0
    /\ gmmArgs = [called |-> FALSE, mixw |-> 0, sendump |-> 0]
    /\ mixwCause = "none"
    /\ files = {"unknown"}
    /\ pc = [c \in Calls |-> "idle"]
    /\ kind = [c \in Calls |-> "initialize"]
    /\ log = [c \in Calls |-> <<>>]
    /\ err = [c \in Calls |-> "none"]
    /\ early = [c \in Calls |-> FALSE]
    /\ started = 0
    /\ cont = [c \in Calls |-> NoContainers]
    /\ ndone = 0
    /\ last = [op |-> "none", err |-> "none", engine |-> FALSE]
    /\ CfgIdle
    /\ FsgIdle
    /\ JsgfIdle
    /\ KeyIdle
    /\ s3 = [v \in Views |-> s3file_init(Buffer(s3src, v))]
    /\ s3log = [v \in Views |-> <<>>]
    /\ proc = [v \in Views |-> "running"]
    /\ s3ref = OneReference

\* Containers of few shapes, sound or damaged, read by any calls.
OneEntry == <<[comment |-> FALSE, name |-> NameA, value |-> Value1]>>
FreeContainers ==
    {[lines |-> <<>>, recs |-> <<>>],
     [lines |-> OneEntry,
      recs |-> <<[nd |-> 1, el_sz |-> 2, dims |-> <<2>>, vals |-> <<<<0, 258>>, <<0, 1>>>>]>>],
     [lines |-> <<[comment |-> TRUE, name |-> NameA, value |-> Value1],
                  [comment |-> FALSE, name |-> NameA, value |-> Value1Blank2]>>,
      recs |-> <<[nd |-> 0, el_sz |-> 1, dims |-> <<>>, vals |-> <<<<0, 127>>>>],
                 [nd |-> 2, el_sz |-> 4, dims |-> <<1, 2>>,
                  vals |-> <<<<258, 772>>, <<0, 1>>>>]>>]}
InitS3 ==
    /\ s3src \in {[lines |-> c.lines, recs |-> c.recs, damage |-> d, at |-> 0, bit |-> 0,
                      mode |-> "free"] :
                     c \in FreeContainers, d \in Damages}
    /\ S3Opened

\* Sound containers of up to MaxHdr header lines and MaxRec records, read
\* as written; the header lines vary when there is at most one record.
InitS3Trip ==
    /\ s3src \in [lines : SeqsUpTo(Line, MaxHdr), recs : SeqsUpTo(Record, MaxRec),
                  damage : {"none"}, at : {0}, bit : {0}, mode : {"matched"}]
    /\ Len(s3src.recs) <= 1 \/ s3src.lines = OneEntry
    /\ S3Opened

\* Containers of one record of any shape, or of two, one bit of the
\* records flipped after the checksum was computed, read as written.
FlipRecs ==
    {<<r>> : r \in Record} \cup {c.recs : c \in {d \in FreeContainers : Len(d.recs) = 2}}
InitS3Flip ==
    /\ s3src \in [lines : {<<>>}, recs : FlipRecs, damage : {"bit"},
                  at : 0..MaxRegion, bit : 0..7, mode : {"matched"}]
    /\ s3src.at < RegionLen(s3src.recs)
    /\ S3Opened

\* s3file_retain: one more reference.
s3file_retain(refcnt) == refcnt + 1

\* s3file_free releasing the container whatever references are left.
s3file_free_always(refcnt) == [refcnt |-> refcnt - 1, released |-> TRUE]

\* s3file_free: one reference less; the container is released when none
\* is left.
s3file_free(refcnt) == [refcnt |-> refcnt - 1, released |-> refcnt - 1 = 0]

\* A holder of a reference shares the container; up to MaxRetain times.
S3Retain ==
    /\ s3ref.refcnt > 0
    /\ s3ref.retains < MaxRetain
    /\ s3ref' = [s3ref EXCEPT !.refcnt = s3file_retain(s3ref.refcnt),
                              !.retains = s3ref.retains + 1]
    /\ UNCHANGED <<decVars, engVars, callVars, files, last, notS3, s3src, s3, s3log, proc>>

\* A holder of a reference drops it. Once the container is released no
\* reference is left to call with.
S3Free ==
    /\ s3ref.refcnt > 0
    /\ LET r == s3file_free(s3ref.refcnt)
       IN  s3ref' = [s3ref EXCEPT !.refcnt = r.refcnt,
                                  !.frees = s3ref.frees + 1,
                                  !.released = s3ref.released + (IF r.released THEN 1 ELSE 0)]
    /\ UNCHANGED <<decVars, engVars, callVars, files, last, notS3, s3src, s3, s3log, proc>>

NextS3Ref ==
    \/ S3Retain
    \/ S3Free

NextS3 ==
    \/ ParseHeader
    \/ Get
    \/ Get1d
    \/ Get2d
    \/ Get3d
    \/ VerifyChksum

SpecS3 == InitS3 /\ [][NextS3]_vars
SpecS3Trip == InitS3Trip /\ [][NextS3]_vars
SpecS3Flip == InitS3Flip /\ [][NextS3]_vars
SpecS3Ref == InitS3 /\ [][NextS3Ref]_vars

(***************************************************************************)
(* Properties of the bootstrap sequence.                                   *)
(***************************************************************************)
IsPrefix(s, t) == Len(s) <= Len(t) /\ s = SubSeq(t, 1, Len(s))

\* How many entries of InitializeOrder an initialize() call suspended at p
\* has completed.
CompletedAt(p) ==
    CASE p \in {"idle", "initialize", "config_read"} -> 0
      [] p = "config_engine" -> 1
      [] p \in {"mdef", "mdef_read"} -> 5
      [] p \in {"tmat", "tmat_read"} -> 6
      [] p \in {"gmm", "gmm_means", "gmm_vars", "gmm_sendump", "gmm_mixw"} -> 7
      [] p \in {"finish", "done"} -> 11
      [] OTHER -> StageNo(p)

\* The positions in which a stage has begun and not yet ended.
StagePcs ==
    {"config_read", "config_engine", "mdef_read", "tmat_read", "gmm_means",
     "gmm_vars", "gmm_sendump", "gmm_mixw"}
\* The positions at which a stage is about to be invoked.
EntryPcs == {StageList[k] : k \in 1..Len(StageList)}

\* C1: every initialize() call completes the stages in the declared order,
\* none skipped: wherever the call stands, what it has completed is exactly
\* the feat.params overlay and the stages before the one it stands at; and
\* the decoder becomes initialized only in the step of a call that has
\* completed all of them, the grammar stage last.
C1_StagesInOrder ==
    [][ /\ \A c \in Calls :
            kind'[c] = "initialize" =>
                /\ IsPrefix(log'[c], InitializeOrder)
                /\ pc'[c] # "failed" =>
                      log'[c] = SubSeq(InitializeOrder, 1, CompletedAt(pc'[c]))
        /\ (initialized' /\ ~initialized) =>
              \E c \in Calls :
                  /\ pc[c] = "finish"
                  /\ pc'[c] = "done"
                  /\ log[c] = InitializeOrder ]_vars

C1_Witness ==
    \E c \in Calls :
        pc[c] = "done" /\ kind[c] = "initialize" /\ log[c] = InitializeOrder /\ initialized

\* C2: when a stage of initialize() fails, the call throws the error of that
\* stage, which is the first one it had not completed; the step changes
\* neither the handle's stage nor the initialized flag; and the call then
\* does nothing more: no later stage, no retry.
C2_FirstFailureEnds ==
    [][ \A c \in Calls :
          /\ (err'[c] # "none" /\ err[c] = "none") =>
                /\ pc'[c] = "failed"
                /\ log'[c] = log[c]
                /\ initialized' = initialized
                /\ hstage' = hstage
                /\ \/ err'[c] \in {"not_constructed", "ReferenceError"}
                   \/ err'[c] = InitializeOrder[Len(log[c]) + 1]
          /\ (err[c] # "none" /\ started' = started) =>
                /\ pc[c] = "failed"
                /\ pc'[c] = "failed"
                /\ log'[c] = log[c]
                /\ err'[c] = err[c]
                /\ (initialized' # initialized =>
                      \E d \in Calls \ {c} : pc[d] = "finish") ]_vars

C2_Witness ==
    \E c \in Calls :
        /\ pc[c] = "failed"
        /\ err[c] = "tmat"
        /\ log[c] = SubSeq(InitializeOrder, 1, 6)
        /\ ~initialized

\* C3: a stage method invoked while its predecessor stage is not the one on
\* the handle fails: the call never gets past that stage.
C3_OutOfOrderStageFails ==
    \A c \in Calls :
        early[c] => pc[c] \in {"failed"} \cup StagePcs

\* C4: no two stages are in progress on the handle at once, and whenever an
\* initialize() call is about to invoke a stage, the handle holds the result
\* of the stage before it.
C4_OneStageAtATime ==
    /\ Cardinality({c \in Calls : pc[c] \in StagePcs}) <= 1
    /\ \A c \in Calls :
          (kind[c] = "initialize" /\ pc[c] \in EntryPcs) =>
              hstage = StageNo(pc[c]) - 1

\* C5: the engine is given exactly one of the two mixture containers: the
\* compact one when both sources exist, the raw one when only the raw
\* source exists.
C5_CompactPreferred ==
    gmmArgs.called =>
        /\ (gmmArgs.sendump # 0) # (gmmArgs.mixw # 0)
        /\ {"sendump", "mixw"} \subseteq files =>
              (gmmArgs.sendump # 0 /\ gmmArgs.mixw = 0)
        /\ files = {"mixw"} => (gmmArgs.mixw # 0 /\ gmmArgs.sendump = 0)

\* C6: load_gmm opens the raw mixture weights only because the compact
\* source does not exist, never because obtaining the compact container
\* failed otherwise.
C6_FallbackOnlyWhenUnavailable == mixwCause \in {"none", "unavailable"}

\* C8 as stated: once initialize() has run on a handle, a later
\* initialize() on that handle runs no stage.
C8_NoSecondRun ==
    ndone >= 1 => \A c \in Calls : pc[c] \notin StagePcs \cup EntryPcs \cup {"finish"}

\* C8 amended: initialize() is refused only on a deleted handle, so it can
\* be run again on the same handle; reinitialize_audio reaches the engine
\* only on an initialized decoder.
C8_RefusedOnlyWhenDeleted ==
    /\ \A c \in Calls : err[c] = "not_constructed" => ps = 0
    /\ (last.op = "reinitialize_audio" /\ last.engine) => initialized

C8_Witness ==
    /\ ndone >= 2
    /\ ps # 0
    /\ \E c \in Calls : pc[c] = "done" /\ log[c] = InitializeOrder

\* C9: while no initialize() call has completed, every guarded operation
\* throws "Decoder not yet initialized", makes no engine call and changes
\* nothing of the decoder, the handle or the calls in progress.
C9_GuardedBeforeInit ==
    [][ \A op \in GuardedOps :
          (last' # last /\ last'.op = op /\ ndone = 0) =>
              /\ last'.err = "Decoder not yet initialized"
              /\ ~last'.engine
              /\ UNCHANGED <<decVars, engVars, callVars, files>> ]_vars

C9_Witness ==
    /\ last.op = "parse_jsgf"
    /\ last.err = "Decoder not yet initialized"
    /\ ~last.engine
    /\ ndone = 0
    /\ pc["A"] = "failed"
    /\ err["A"] = "grammar"

(***************************************************************************)
(* Properties of the feat.params overlay and of create_fsg.                *)
(***************************************************************************)
\* The value Config.get returns once tok has replaced the value of key.
Converted(key, tok) ==
    LET type == cmd_ln_type_r(normalize_key(key))
    IN  CASE type = ARG_STRING -> Str(tok)
          [] type = ARG_FLOATING -> ToNumber(tok)
          [] type = ARG_INTEGER -> ToInt32(tok)
          [] OTHER -> Bool(ToInt32(tok).n # 0)

LargestIndex(ts) ==
    LET S == {ts[i].from : i \in 1..Len(ts)} \cup {ts[i].to : i \in 1..Len(ts)}
    IN  CHOOSE m \in S : \A x \in S : x <= m

\* C10: for every non-empty transition list, each binding creates the
\* automaton with one state more than the largest index that is a source or
\* a destination in the list, so every endpoint is below the state count.
C10_StateCount ==
    \A b \in Bindings :
        (trans # <<>> /\ fsg[b] # NoFsg) =>
            /\ fsg[b].n_state = LargestIndex(trans) + 1
            /\ \A i \in 1..Len(trans) :
                  trans[i].from < fsg[b].n_state /\ trans[i].to < fsg[b].n_state

C10_Witness ==
    /\ Len(trans) = 2
    /\ trans[1].to = MaxState
    /\ trans[1].from < MaxState
    /\ trans[2].from < MaxState /\ trans[2].to < MaxState
    /\ fsg["js"].result = "fsg" /\ fsg["js"].n_state = MaxState + 1
    /\ fsg["py"].result = "fsg" /\ fsg["py"].n_state = MaxState + 1

(***************************************************************************)
(* Properties of the automaton create_fsg builds.                          *)
(***************************************************************************)
\* The words of a transition list, each once, in order of first appearance.
RECURSIVE FirstAppearances(_)
FirstAppearances(ts) ==
    IF ts = <<>> THEN <<>>
    ELSE LET before == FirstAppearances(SubSeq(ts, 1, Len(ts) - 1))
             w == ts[Len(ts)].word
         IN  IF w = "" \/ \E i \in 1..Len(before) : before[i] = w
             THEN before ELSE Append(before, w)
\* How many of the first i tuples carry a word.
Worded(ts, i) == Cardinality({j \in 1..i : ts[j].word # ""})

\* C11: an automaton create_fsg returns has one transition per tuple, in
\* the order of the tuples and between the tuple's states; a tuple with a
\* word gives a transition labelled with the id fsg_model_word_add returned
\* for that word, a tuple without one a null transition; probability 1 is
\* stored as log-probability 0; and the word table holds the words in order
\* of first appearance, so that their ids count up from 0.
C11_OneTransitionPerTuple ==
    \A b \in Bindings :
        fsg[b].result = "fsg" =>
            LET g == fsg[b]
            IN  /\ Len(g.arcs) = Len(trans)
                /\ \A i \in 1..Len(trans) :
                      /\ g.arcs[i].from = trans[i].from
                      /\ g.arcs[i].to = trans[i].to
                      /\ (g.arcs[i].logp = 0) = (trans[i].prob = "1.0")
                      /\ g.arcs[i].logp <= 0
                      /\ IF trans[i].word = ""
                         THEN g.arcs[i].wid = -1
                         ELSE /\ g.calls[Worded(trans, i)].text = trans[i].word
                              /\ g.arcs[i].wid = g.calls[Worded(trans, i)].id
                              /\ g.words[g.arcs[i].wid + 1] = trans[i].word
                /\ Len(g.calls) = Worded(trans, Len(trans))
                /\ g.words = FirstAppearances(trans)

\* The example: (0,1,1.0,"a"), (1,2,1.0,"b") with start 0 and final 2 gives
\* three states, two labelled transitions of log-probability 0 and the word
\* table a -> 0, b -> 1, in both bindings.
C11_Witness ==
    /\ trans = << [from |-> 0, to |-> 1, prob |-> "1.0", word |-> "a"],
                  [from |-> 1, to |-> 2, prob |-> "1.0", word |-> "b"] >>
    /\ ends = <<0, 2>>
    /\ \A b \in Bindings :
          /\ fsg[b].result = "fsg"
          /\ fsg[b].n_state = 3
          /\ fsg[b].start = 0 /\ fsg[b].final = 2
          /\ fsg[b].arcs = << [from |-> 0, to |-> 1, logp |-> 0, wid |-> 0],
                              [from |-> 1, to |-> 2, logp |-> 0, wid |-> 1] >>
          /\ fsg[b].words = <<"a", "b">>

\* C12: every call of fsg_model_word_add made while an automaton is built
\* either finds its text in the word table, returns the id an earlier call
\* returned for it and leaves the table as long as it was, or returns the
\* next id and makes the table one longer; the table never holds a text
\* twice.
C12_AddWordIdempotent ==
    \A b \in Bindings :
        LET g == fsg[b]
            SizeBefore(j) == IF j = 1 THEN 0 ELSE g.calls[j - 1].size
        IN  /\ \A j \in 1..Len(g.calls) :
                  IF \E k \in 1..(j - 1) : g.calls[k].text = g.calls[j].text
                  THEN /\ \A k \in 1..(j - 1) :
                            g.calls[k].text = g.calls[j].text => g.calls[k].id = g.calls[j].id
                       /\ g.calls[j].size = SizeBefore(j)
                  ELSE /\ g.calls[j].id = SizeBefore(j)
                       /\ g.calls[j].size = SizeBefore(j) + 1
            /\ \A i, j \in 1..Len(g.words) : g.words[i] = g.words[j] => i = j

C12_Witness ==
    /\ Len(trans) = 2
    /\ trans[1].word = "a" /\ trans[2].word = "a"
    /\ fsg["js"].result = "fsg"
    /\ fsg["js"].words = <<"a">>
    /\ fsg["js"].calls = << [text |-> "a", id |-> 0, size |-> 1],
                            [text |-> "a", id |-> 0, size |-> 1] >>
    /\ fsg["js"].arcs[1].wid = 0 /\ fsg["js"].arcs[2].wid = 0

\* Every transition of g lies within its states and every label is an id
\* of its word table.
TransitionsValid(g) ==
    \A i \in 1..Len(g.arcs) :
        /\ g.arcs[i].from < g.n_state
        /\ g.arcs[i].to < g.n_state
        /\ g.arcs[i].wid # -1 => g.arcs[i].wid \in 0..(Len(g.words) - 1)

\* C13 as stated: every automaton create_fsg returns has its start and its
\* final state below the state count, whatever the caller supplied, its
\* transitions within its states and its labels in its word table.
C13_AutomatonInvariant ==
    \A b \in Bindings :
        fsg[b].result = "fsg" =>
            /\ fsg[b].start < fsg[b].n_state
            /\ fsg[b].final < fsg[b].n_state
            /\ TransitionsValid(fsg[b])

\* C13 amended: every automaton create_fsg returns has its transitions
\* within its states and its labels in its word table; start and final are
\* recorded as supplied, so each is below the state count exactly when the
\* caller's value is at most the largest state the list mentions (0 for an
\* empty list).
C13_ValidUpToEnds ==
    \A b \in Bindings :
        fsg[b].result = "fsg" =>
            LET top == IF trans = <<>> THEN 0 ELSE LargestIndex(trans)
            IN  /\ TransitionsValid(fsg[b])
                /\ fsg[b].start = ends[1]
                /\ fsg[b].final = ends[2]
                /\ (fsg[b].start < fsg[b].n_state) = (ends[1] <= top)
                /\ (fsg[b].final < fsg[b].n_state) = (ends[2] <= top)

C13_Witness ==
    /\ fsg["py"].result = "fsg"
    /\ Len(fsg["py"].arcs) = 2
    /\ fsg["py"].arcs[1].wid = -1 /\ fsg["py"].arcs[2].wid = 0
    /\ fsg["py"].n_state = 2
    /\ fsg["py"].start = 0 /\ fsg["py"].final = 1

(***************************************************************************)
(* Properties of parse_jsgf.                                               *)
(***************************************************************************)
\* C14: of a text that parses, parse_jsgf without a rule name compiles the
\* first public rule and fails when no rule is public; with a rule name it
\* compiles the rule of that name and fails with ReferenceError when no
\* rule has it; a call that fails builds no automaton.
C14_GrammarResolution ==
    \A b \in Bindings :
        (jsgfOut[b] # NoJsgf /\ jsgfIn.ok) =>
            LET rs == jsgfIn.rules
                out == jsgfOut[b]
                named == {i \in 1..Len(rs) : rs[i].name = jsgfIn.toprule}
                public == {i \in 1..Len(rs) : rs[i].public}
            IN  IF jsgfIn.toprule = ""
                THEN IF public = {}
                     THEN out.result # "fsg" /\ ~out.built
                     ELSE /\ out.result = "fsg"
                          /\ out.rule \in public
                          /\ \A i \in public : out.rule <= i
                ELSE IF named = {}
                     THEN out.result = "ReferenceError" /\ ~out.built
                     ELSE out.result = "fsg" /\ out.rule \in named

(***************************************************************************)
(* Properties of the Config interface.                                     *)
(***************************************************************************)
\* The last call named a key whose normalized form the store did not define.
UnknownKeyCall ==
    /\ cfgCall.op # "none"
    /\ normalize_key(cfgCall.key) \notin DOMAIN prevStore

\* C15: setting or getting a parameter whose normalized key the store does
\* not define fails, with ReferenceError from Config.set and Config.get
\* (KeyError from the Python binding), leaves every stored value as it was
\* and creates no key.
C15_UnknownKeyRejected ==
    UnknownKeyCall =>
        /\ cfgCall.err = (IF cfgCall.binding = "js" THEN "ReferenceError" ELSE "KeyError")
        /\ store = prevStore
        /\ DOMAIN store = Known

\* An unknown key was set through the JavaScript interface after a known
\* one had been changed.
C15_Witness ==
    /\ UnknownKeyCall
    /\ cfgCall.binding = "js"
    /\ cfgCall.op = "set"
    /\ cfgCall.key = Key("", "zz")
    /\ store # DefaultStore

(***************************************************************************)
(* Properties of the container parser.                                     *)
(***************************************************************************)
\* C16: a fatal diagnostic never ends the process: after a read that
\* raised one, the process the container is read in still runs.
C16_FatalReturnsToCaller ==
    \A v \in Views :
        (\E i \in 1..Len(s3log[v]) : s3log[v][i].fatal) => proc[v] = "running"

\* The entries of a header: its lines that are not comments.
RECURSIVE Entries(_)
Entries(lines) ==
    IF lines = <<>> THEN <<>>
    ELSE IF Head(lines).comment THEN Entries(Tail(lines))
    ELSE <<[name |-> Head(lines).name, value |-> Head(lines).value]>> \o Entries(Tail(lines))

\* The i-th call on the serialization v was parse_header.
ParsedAt(v, i) == i \in 1..Len(s3log[v]) /\ s3log[v][i].op = "parse_header"

HeaderParsed(v) == \E i \in 1..Len(s3log[v]) : ParsedAt(v, i) /\ s3log[v][i].ret = 0

ReadThrough(v) == Len(s3log[v]) = Len(s3src.recs) + 2

\* C19: of a container built from header entries, the native order marker,
\* records and the checksum of every record word, parse_header and the
\* reads of the records return the header names and values and the record
\* values it was built from, and verify_chksum then returns 0.
C19_RoundTrip ==
    (s3src.mode = "matched" /\ ReadThrough("native")) =>
        LET lg == s3log["native"]
            K == Len(s3src.recs)
        IN  /\ lg[1].ret = 0
            /\ s3["native"].headers = Entries(s3src.lines)
            /\ \A i \in 1..K :
                  /\ lg[i + 1].vals = CountWords(s3src.recs[i]) \o s3src.recs[i].vals
                  /\ lg[i + 1].ret = Len(s3src.recs[i].vals)
            /\ lg[K + 2].ret = 0

\* A container of one entry and two records, one of a byte and one a
\* matrix of 4-byte elements, was read through.
C19_Witness ==
    /\ s3src.mode = "matched"
    /\ ReadThrough("native")
    /\ Len(s3src.recs) = 2
    /\ s3src.recs[1].el_sz = 1
    /\ s3src.recs[2].el_sz = 4
    /\ s3src.recs[2].nd = 2
    /\ Entries(s3src.lines) # <<>>

\* C20: the serialization in the foreign byte order, its marker swapped,
\* yields through every read the values, and accumulates the checksum,
\* that the native serialization of the same records yields, and
\* verify_chksum returns 0 on both.
C20_SwapCorrect ==
    s3src.mode = "matched" =>
        /\ Len(s3log["foreign"]) = Len(s3log["native"])
        /\ \A i \in 1..Len(s3log["native"]) :
              /\ s3log["foreign"][i].vals = s3log["native"][i].vals
              /\ s3log["foreign"][i].ret = s3log["native"][i].ret
        /\ s3["foreign"].chksum = s3["native"].chksum
        /\ ReadThrough("native") =>
              /\ s3log["native"][Len(s3src.recs) + 2].ret = 0
              /\ s3log["foreign"][Len(s3src.recs) + 2].ret = 0

\* Records of 2-byte and of 4-byte elements were read through from both
\* serializations, whose bytes differ, the foreign one with the swap flag.
C20_Witness ==
    /\ s3src.mode = "matched"
    /\ ReadThrough("foreign")
    /\ Len(s3src.recs) = 2
    /\ s3src.recs[1].el_sz = 2
    /\ s3src.recs[2].el_sz = 4
    /\ s3src.recs[2].vals[1] = <<258, 772>>
    /\ s3["foreign"].swap = 1
    /\ s3["native"].swap = 0
    /\ s3["foreign"].buf # s3["native"].buf

\* The flipped bit lies in an element of a record, not in one of its
\* leading counts.
RECURSIVE InElement(_, _)
InElement(recs, at) ==
    IF recs = <<>> THEN FALSE
    ELSE LET nc == 4 * Head(recs).nd
             ne == Head(recs).el_sz * Len(Head(recs).vals)
         IN  IF at < nc THEN FALSE
             ELSE IF at < nc + ne THEN TRUE
             ELSE InElement(Tail(recs), at - nc - ne)

\* The last call on the serialization v was verify_chksum, it returned a
\* mismatch to the caller, and no call before it was fatal.
MismatchReturned(v) ==
    /\ s3log[v][Len(s3log[v])].op = "verify_chksum"
    /\ s3log[v][Len(s3log[v])].ret = -1
    /\ \A i \in 1..Len(s3log[v]) : ~s3log[v][i].fatal
    /\ proc[v] = "running"

C22_ReleasedWithLastReference ==
    /\ s3ref.released = (IF s3ref.frees = s3ref.retains + 1 THEN 1 ELSE 0)
    /\ s3ref.frees <= s3ref.retains + 1

\* The container was released after references were taken and dropped.
C22_Witness ==
    /\ s3ref.retains = 2
    /\ s3ref.frees = 3
    /\ s3ref.released = 1

(***************************************************************************)
(* Properties of the containers of the load stages.                        *)
(***************************************************************************)
\* How many times Module._s3file_free was called on a container of a call.
FreeCount(k, role) == Cardinality({i \in 1..Len(k.frees) : k.frees[i] = role})
\* The call c is suspended inside load_gmm.
InLoadGmm(c) == pc[c] \in {"gmm_means", "gmm_vars", "gmm_sendump", "gmm_mixw"}

\* C23: once load_gmm has returned or thrown, each container it obtained
\* (means, variances, sendump or mixture weights) has been handed to the
\* engine or released.
C23_GmmContainersAccounted ==
    \A c \in Calls :
        ~InLoadGmm(c) =>
            \A role \in cont[c].made \cap {"means", "variances", "sendump", "mixw"} :
                role \in cont[c].given \/ FreeCount(cont[c], role) > 0

\* C24: load_mdef and load_tmat release the container they made exactly
\* once, whether or not the parse gave a result, install the result only
\* when it did, and otherwise throw with nothing installed.
C24_ContainerReleasedOnce ==
    \A c \in Calls : \A role \in cont[c].made \cap {"mdef", "tmat"} :
        /\ FreeCount(cont[c], role) = 1
        /\ (\E i \in 1..Len(log[c]) : log[c][i] = role) <=> role \in cont[c].parsed
        /\ role \notin cont[c].parsed => err[c] = role

\* The resolution rule of the configuration keys.
KeyRule(key) ==
    IF key = EmptyKey THEN EmptyKey
    ELSE IF key.pre = "_" THEN key
    ELSE IF Key("_", key.name) \in Known THEN Key("_", key.name)
    ELSE IF key.pre = "" /\ Key("-", key.name) \in Known THEN Key("-", key.name)
    ELSE key
\* C25: normalize_key resolves a key the same way in the Python binding
\* and in the JavaScript binding: a key starting with '_' to itself, one
\* starting with '-' to its underscore form when the store defines that and
\* to itself otherwise, one with neither to the underscore form, else the
\* dash form, else itself, and the key of length 0 to the key of length 0.
C25_SameResolution ==
    \A b \in Resolvers :
        resolved.out[b] # Unresolved =>
            /\ resolved.out[b].repr \in {"bytes", "string"}
            /\ resolved.out[b].key = KeyRule(resolved.key)
\* C26: once the latest initialize() call has failed, at whatever stage
\* and also when an earlier call had completed, assert_initialized rejects
\* the guarded operations.
C26_FailedInitializeRejectsOps ==
    (kind["A"] = "initialize" /\ pc["A"] = "failed") => assert_initialized # "none"
\* Call c of initialize is inside init_config.
InInitConfig(c) == kind[c] = "initialize" /\ pc[c] \in {"config_read", "config_engine"}
\* C27: whenever init_config runs in a call of initialize on a live
\* handle, whatever the argument, the configuration the decoder holds is
\* live.
C27_ConfigLiveInInitConfig ==
    \A c \in Calls : (InInitConfig(c) /\ ps # 0) => cmd_ln # 0
\* C28: once delete() has released the handle, every guarded operation and
\* every initialize() is rejected with an error and makes no engine call.
C28_RejectedAfterDelete ==
    [][ ps = 0 =>
          /\ last' # last => (~last'.engine /\ last'.err # "none")
          /\ \A c \in Calls :
                (pc[c] = "initialize" /\ pc'[c] # "initialize") => pc'[c] = "failed" ]_vars
\* The stored keys without their first character, and a sequence that
\* holds each of them once.
NormalizedKeys == {Key("", iter.table[i].name) : i \in 1..Len(iter.table)}
YieldedOnce(ys) ==
    /\ {ys[i] : i \in 1..Len(ys)} = NormalizedKeys
    /\ \A i, j \in 1..Len(ys) : ys[i] = ys[j] => i = j
\* C29: iterating a Config ends, in either binding, and has then yielded
\* every stored key without its leading '-' or '_' exactly once, also
\* when two stored keys differ only in that character.
C29_IterationYieldsEachOnce ==
    /\ iter.js.state # "spinning"
    /\ iter.js.state = "done" => YieldedOnce(iter.js.yielded)
    /\ iter.py.state = "done" => YieldedOnce(iter.py.yielded)
\* C30: of a text that parses, parse_jsgf releases the parsed rule set on
\* every way out, in both bindings, whether the target rule was found and
\* compiled, the rule named was not found or no rule was public, and what
\* it returns on success holds an automaton.
C30_RuleSetReleased ==
    \A b \in Bindings :
        (jsgfOut[b] # NoJsgf /\ jsgfIn.ok) =>
            /\ jsgfOut[b].freed
            /\ jsgfOut[b].result = "fsg" => jsgfOut[b].built
====
